---- MODULE Spec2Model ----
(***************************************************************************)
(* SafeDoser backend: the token ledger (token_service.py), the session     *)
(* credentials (auth.py), the /auth/refresh handler (app.py) and the OAuth *)
(* reconciliation (oauth_service.py), as state machines.                   *)
(*                                                                         *)
(* Time is counted in minutes since the start of the run.                  *)
(***************************************************************************)
EXTENDS Integers, FiniteSets, Sequences, TLC

VARIABLES
    now,        \* datetime.utcnow(), in minutes
    ticks,      \* how many times the clock has advanced (bounded)
    ledger,     \* table verification_tokens: row id -> row
    nextId,     \* the id the database gives the next inserted row
    call,       \* per request handler: the TokenService call it is running
    minted,     \* the session credentials the server has issued
    probe,      \* the last pair of AuthService.verify_token calls
    refreshed,  \* the last /auth/refresh request and its response
    users,      \* table users: user id -> row
    ocall,      \* per request handler: its create_or_get_oauth_user call
    last,       \* the last completed create_or_get_oauth_user call, while
                \* no other request has written the users table since
    oauth_states, \* per server instance: OAuthService._oauth_states
    nextState,  \* names the next state nonce generate_state returns
    accepts,    \* per nonce: how many verify_oauth_state calls returned True
    checked,    \* the last verify_oauth_state call and its result
    cb,         \* per request handler: its /auth/google/callback request
    req,        \* per request handler: its /auth/forgot-password or
                \* /auth/login request and the response
    supplements, \* table supplements: supplement id -> row
    sup,        \* per request handler: its PUT or DELETE /supplements/{id}
    tasks,      \* AsyncTimer.tasks: task_id -> asyncio task
    jobs,       \* the asyncio tasks create_task made: handle -> its state
    nextJob     \* names the next asyncio task

clockVars == <<now, ticks>>
tokenVars == <<ledger, nextId, call>>
sessionVars == <<minted, probe, refreshed>>
userVars == <<users, ocall, last>>

nonceVars == <<oauth_states, nextState, accepts, checked>>
callbackVars == <<cb>>
requestVars == <<req>>
supplementVars == <<supplements, sup>>
timerVars == <<tasks, jobs, nextJob>>
appVars == <<supplements, sup, tasks, jobs, nextJob>>

vars == <<now, ticks, ledger, nextId, call, minted, probe, refreshed, users,
          ocall, last, oauth_states, nextState, accepts, checked, cb, req,
          supplements, sup, tasks, jobs, nextJob>>

\* ------------------------------------------------------------------ bounds

MaxRows == 2        \* rows ever inserted in the ledger
MaxTicks == 1       \* clock advances in one run
MaxMinted == 2      \* session credentials issued in one run
MaxSessionTicks == 2 \* clock advances in one run of the session credentials
MaxStates == 1      \* state nonces generated in one run
MaxNonceTicks == 2  \* clock advances in one run of the state nonces
MaxAccepts == 2     \* accepted verifications counted per nonce
MaxJobs == 3        \* asyncio tasks the timer creates in one run

\* --------------------------------------------------------------- constants

VERIFICATION_EXPIRE_HOURS == 24
RESET_EXPIRE_HOURS == 1

Hours(h) == h * 60

Procs == {"p1", "p2"}
Emails == {"alice"}
EMAIL_VERIFICATION == "email_verification"
PASSWORD_RESET == "password_reset"
TokenTypes == {EMAIL_VERIFICATION, PASSWORD_RESET}
\* the clock advances a day at a time: a reset token is expired one step
\* after it was stored, a verification token is at its expiry instant after
\* one step and past it after two
ClockSteps == {Hours(VERIFICATION_EXPIRE_HOURS)}

NoTime == -1

\* ------------------------------------------------------- the token ledger

\* the two lifetimes exchanged
ExpiryOf_Swapped(ttype, t) ==
    IF ttype = EMAIL_VERIFICATION
    THEN t + Hours(RESET_EXPIRE_HOURS)
    ELSE t + Hours(VERIFICATION_EXPIRE_HOURS)

\* timedelta(hours=24) for a verification token, timedelta(hours=1) for a
\* reset token
ExpiryOf(ttype, t) ==
    IF ttype = EMAIL_VERIFICATION
    THEN t + Hours(VERIFICATION_EXPIRE_HOURS)
    ELSE t + Hours(RESET_EXPIRE_HOURS)

\* token_data of store_verification_token / store_reset_token. The token
\* generate_token returned is unique to the call (a SHA-256 over 128 random
\* bits); it is named by the id of the row that holds it.
NewRow(id, email, ttype, expires, t) ==
    [id |-> id, email |-> email, token |-> id, token_type |-> ttype,
     expires_at |-> expires, used |-> FALSE, used_at |-> NoTime,
     created_at |-> t]

\* .eq("email", e).eq("token_type", ty).eq("used", False)
UnusedOfPair(L, email, ttype) ==
    {id \in DOMAIN L : L[id].email = email /\ L[id].token_type = ttype
                        /\ ~L[id].used}

\* an UPDATE with no filter on token_type
InvalidateExistingTokens_AnyType(L, email, ttype, t) ==
    [id \in DOMAIN L |->
        IF L[id].email = email /\ ~L[id].used
        THEN [L[id] EXCEPT !.used = TRUE, !.used_at = t]
        ELSE L[id]]

\* _invalidate_existing_tokens: one UPDATE over every unused row of the pair
InvalidateExistingTokens(L, email, ttype, t) ==
    [id \in DOMAIN L |->
        IF id \in UnusedOfPair(L, email, ttype)
        THEN [L[id] EXCEPT !.used = TRUE, !.used_at = t]
        ELSE L[id]]

\* the insert of token_data
InsertRow(L, row) ==
    [id \in DOMAIN L \cup {row.id} |-> IF id = row.id THEN row ELSE L[id]]

\* a select with no filter on token_type
SelectUnused_AnyType(L, email, token, ttype) ==
    {id \in DOMAIN L : L[id].email = email /\ L[id].token = token /\ ~L[id].used}

\* verify_token's select: rows matching email, token, token_type, used = False
SelectUnused(L, email, token, ttype) ==
    {id \in DOMAIN L : L[id].email = email /\ L[id].token = token
                        /\ L[id].token_type = ttype /\ ~L[id].used}

\* the comparison turned round
IsExpired_Reversed(row, t) == t < row.expires_at

\* datetime.utcnow() > expires_at
IsExpired(row, t) == t > row.expires_at

\* an update by id alone, without .eq("used", False)
UpdateMatches_AnyState(L, id) == {i \in DOMAIN L : i = id}

\* the rows the conditional update .eq("id", id).eq("used", False) affects
UpdateMatches(L, id) == {i \in DOMAIN L : i = id /\ ~L[i].used}

\* verify_token's conditional update
MarkUsed(L, id, t) ==
    [i \in DOMAIN L |->
        IF i \in UpdateMatches(L, id)
        THEN [L[i] EXCEPT !.used = TRUE, !.used_at = t]
        ELSE L[i]]

\* a sweep with lte in place of lt
ExpiredRows_AtOrBefore(L, t) == {id \in DOMAIN L : L[id].expires_at <= t}

\* cleanup_expired_tokens: delete().lt("expires_at", current_time)
ExpiredRows(L, t) == {id \in DOMAIN L : L[id].expires_at < t}

CleanupExpired(L, t) == [id \in DOMAIN L \ ExpiredRows(L, t) |-> L[id]]

\* glossary: a live token is unused and unexpired
Live(L, email, ttype, t) ==
    {id \in UnusedOfPair(L, email, ttype) : L[id].expires_at > t}

\* ---------------------------------------------------------------- calls

\* A handler's call: op and pc say where it is, email .. expires are the call's
\* local variables while it runs, result is what it returned, why the branch
\* that returned it, and row the row a verify_token selected.
Idle ==
    [op |-> "none", pc |-> "done", email |-> "", ttype |-> "",
     expires |-> NoTime, row |-> 0, result |-> "none",
     why |-> ""]

Returned(op, row, result, why) ==
    [Idle EXCEPT !.op = op, !.row = row, !.result = result, !.why = why]

Ready(p) == call[p].pc = "done"

ClockInit ==
    /\ now = 0
    /\ ticks = 0

TokenInit ==
    /\ ledger = <<>>
    /\ nextId = 1
    /\ call = [p \in Procs |-> Idle]

\* a store call that returns False when the invalidation raises
StoreInvalidate_FailureReported(p, email, ttype) ==
    /\ Ready(p)
    /\ nextId <= MaxRows
    /\ \/ /\ ledger' = InvalidateExistingTokens(ledger, email, ttype, now)
          /\ call' = [call EXCEPT ![p] =
                [Idle EXCEPT !.op = "store", !.pc = "insert", !.email = email,
                             !.ttype = ttype,
                             !.expires = IF ttype = PASSWORD_RESET
                                         THEN ExpiryOf(ttype, now) ELSE NoTime]]
       \/ /\ UnusedOfPair(ledger, email, ttype) # {}
          /\ call' = [call EXCEPT ![p] = Returned("store", 0, "false", "error")]
          /\ UNCHANGED ledger
    /\ UNCHANGED <<now, ticks, nextId>>

\* The first half of store_verification_token / store_reset_token: the
\* invalidation of the pair's unused rows. An exception of the update is
\* caught in _invalidate_existing_tokens and only logged. store_reset_token
\* computes expires_at before it, store_verification_token after it.
StoreInvalidate(p, email, ttype) ==
    /\ Ready(p)
    /\ nextId <= MaxRows
    /\ call' = [call EXCEPT ![p] =
            [Idle EXCEPT !.op = "store", !.pc = "insert", !.email = email,
                         !.ttype = ttype,
                         !.expires = IF ttype = PASSWORD_RESET
                                     THEN ExpiryOf(ttype, now) ELSE NoTime]]
    /\ \/ ledger' = InvalidateExistingTokens(ledger, email, ttype, now)
       \/ /\ UnusedOfPair(ledger, email, ttype) # {}
          /\ UNCHANGED ledger
    /\ UNCHANGED <<now, ticks, nextId>>

\* The second half: the insert. When result.data is empty or the insert
\* raises, the call returns False.
StoreInsert(p) ==
    /\ call[p].pc = "insert"
    /\ LET c == call[p]
           expires == IF c.ttype = PASSWORD_RESET THEN c.expires
                      ELSE ExpiryOf(c.ttype, now)
       IN \/ /\ nextId <= MaxRows
             /\ ledger' = InsertRow(ledger,
                              NewRow(nextId, c.email, c.ttype, expires, now))
             /\ nextId' = nextId + 1
             /\ call' = [call EXCEPT ![p] =
                            Returned("store", 0, "true", "ok")]
          \/ /\ call' = [call EXCEPT ![p] =
                            Returned("store", 0, "false", "error")]
             /\ UNCHANGED <<ledger, nextId>>
    /\ UNCHANGED <<now, ticks>>

\* a stricter verify_token that marks an expired row used before it returns
VerifyLookup_MarksExpired(p, email, token, ttype) ==
    /\ Ready(p)
    /\ LET found == SelectUnused(ledger, email, token, ttype)
       IN \/ /\ found = {}
             /\ call' = [call EXCEPT ![p] =
                            Returned("verify", 0, "false", "not_found")]
             /\ UNCHANGED ledger
          \/ /\ found # {}
             /\ LET id == CHOOSE i \in found : \A j \in found : i <= j
                IN IF IsExpired(ledger[id], now)
                   THEN /\ call' = [call EXCEPT ![p] =
                                Returned("verify", id, "false", "expired")]
                        /\ ledger' = MarkUsed(ledger, id, now)
                   ELSE /\ call' = [call EXCEPT ![p] =
                                [Idle EXCEPT !.op = "verify", !.pc = "update",
                                             !.row = id]]
                        /\ UNCHANGED ledger
          \/ /\ call' = [call EXCEPT ![p] =
                            Returned("verify", 0, "false", "error")]
             /\ UNCHANGED ledger
    /\ UNCHANGED <<now, ticks, nextId>>

\* verify_token up to the expiry check: the select, then the comparison of
\* expires_at with the clock. An exception returns False.
VerifyLookup(p, email, token, ttype) ==
    /\ Ready(p)
    /\ LET found == SelectUnused(ledger, email, token, ttype)
       IN \/ /\ found = {}
             /\ call' = [call EXCEPT ![p] =
                            Returned("verify", 0, "false", "not_found")]
          \/ /\ found # {}
             /\ LET id == CHOOSE i \in found : \A j \in found : i <= j
                IN call' = [call EXCEPT ![p] =
                    IF IsExpired(ledger[id], now)
                    THEN Returned("verify", id, "false", "expired")
                    ELSE [Idle EXCEPT !.op = "verify", !.pc = "update",
                                      !.row = id]]
          \/ call' = [call EXCEPT ![p] =
                            Returned("verify", 0, "false", "error")]
    /\ UNCHANGED <<now, ticks, ledger, nextId>>

\* a read-then-write: the flag seen at lookup time decides, the write is
\* unconditional
VerifyUpdate_ReadThenWrite(p) ==
    /\ call[p].pc = "update"
    /\ LET id == call[p].row
       IN /\ id \in DOMAIN ledger
          /\ ledger' = [ledger EXCEPT ![id].used = TRUE, ![id].used_at = now]
          /\ call' = [call EXCEPT ![p] = Returned("verify", id, "true", "ok")]
    /\ UNCHANGED <<now, ticks, nextId>>

\* verify_token's conditional update and its result
VerifyUpdate(p) ==
    /\ call[p].pc = "update"
    /\ LET id == call[p].row
       IN \/ /\ UpdateMatches(ledger, id) # {}
             /\ ledger' = MarkUsed(ledger, id, now)
             /\ call' = [call EXCEPT ![p] =
                            Returned("verify", id, "true", "ok")]
          \/ /\ UpdateMatches(ledger, id) = {}
             /\ call' = [call EXCEPT ![p] =
                            Returned("verify", id, "false", "lost")]
             /\ UNCHANGED ledger
          \/ /\ call' = [call EXCEPT ![p] =
                            Returned("verify", 0, "false", "error")]
             /\ UNCHANGED ledger
    /\ UNCHANGED <<now, ticks, nextId>>

\* cleanup_expired_tokens, the periodic sweep
Cleanup(p) ==
    /\ Ready(p)
    /\ ExpiredRows(ledger, now) # {}
    /\ ledger' = CleanupExpired(ledger, now)
    /\ call' = [call EXCEPT ![p] = Idle]
    /\ UNCHANGED <<now, ticks, nextId>>

Tick ==
    /\ ticks < MaxTicks
    /\ \E d \in ClockSteps : now' = now + d
    /\ ticks' = ticks + 1
    /\ UNCHANGED <<ledger, nextId, call>>

TokenNext(P) ==
    /\ \/ \E p \in P, e \in Emails, ty \in TokenTypes : StoreInvalidate(p, e, ty)
       \/ \E p \in P : StoreInsert(p)
       \/ \E p \in P, e \in Emails, tok \in 1..MaxRows, ty \in TokenTypes :
             tok < nextId /\ VerifyLookup(p, e, tok, ty)
       \/ \E p \in P : VerifyUpdate(p)
       \/ \E p \in P : Cleanup(p)
       \/ Tick
    /\ UNCHANGED <<sessionVars, userVars, nonceVars, callbackVars, requestVars, appVars>>

\* ------------------------------------------------- session credentials

ACCESS_TOKEN_EXPIRE_MINUTES == 30
REFRESH_TOKEN_EXPIRE_DAYS == 7

Days(d) == d * 24 * 60

SECRET_KEY == "server-secret"
OtherKey == "not-the-server-secret"
None == "None"
ACCESS == "access"
REFRESH == "refresh"
Kinds == {ACCESS, REFRESH}
UserIds == {"u1", "u2"}
SessionClockSteps == {ACCESS_TOKEN_EXPIRE_MINUTES, Days(REFRESH_TOKEN_EXPIRE_DAYS)}

\* the HS256 signature of a payload under a key: equal signatures mean equal
\* payloads and equal keys
Sign(sub, exp, type, key) == <<sub, exp, type, key>>

\* jwt.encode(to_encode, key, algorithm=ALGORITHM)
JwtEncode(sub, exp, type, key) ==
    [sub |-> sub, exp |-> exp, type |-> type, sig |-> Sign(sub, exp, type, key)]

CreateAccessToken(user_id, t) ==
    JwtEncode(user_id, t + ACCESS_TOKEN_EXPIRE_MINUTES, ACCESS, SECRET_KEY)

CreateRefreshToken(user_id, t) ==
    JwtEncode(user_id, t + Days(REFRESH_TOKEN_EXPIRE_DAYS), REFRESH, SECRET_KEY)

\* jwt.decode(token, SECRET_KEY, algorithms=[ALGORITHM]) raises a JWTError
\* when the signature does not match the payload or the exp claim is past
JwtDecodeRaises(token, t) ==
    \/ token.sig # Sign(token.sub, token.exp, token.type, SECRET_KEY)
    \/ token.exp < t

HttpError(status, detail) ==
    [status |-> status, detail |-> detail, user_id |-> None]

Accepted(user_id) == [status |-> 200, detail |-> "", user_id |-> user_id]

\* a detail that names the cause
RaisedOnJWTError_Detailed == HttpError(401, "Token expired or signature invalid")

\* except JWTError: raise HTTPException(401, "Invalid token")
RaisedOnJWTError == HttpError(401, "Invalid token")

\* user_id is None or token_type_claim != token_type:
\* raise HTTPException(401, "Invalid token")
RaisedOnClaims == HttpError(401, "Invalid token")

\* the kind claim is not compared
VerifyToken_KindUnchecked(token, token_type, t) ==
    IF JwtDecodeRaises(token, t) THEN RaisedOnJWTError
    ELSE IF token.sub = None THEN RaisedOnClaims
    ELSE Accepted(token.sub)

\* a verify_token that consults the users table and refuses the credentials
\* of a user whose password was reset
VerifyToken_RevokedByReset(token, token_type, t) ==
    IF JwtDecodeRaises(token, t) THEN RaisedOnJWTError
    ELSE IF token.sub = None \/ token.type # token_type THEN RaisedOnClaims
    ELSE IF \E id \in DOMAIN users :
                /\ id = token.sub
                /\ users[id].password_hash = <<"bcrypt", <<"password of", "reset">>>>
         THEN RaisedOnClaims
    ELSE Accepted(token.sub)

\* AuthService.verify_token
VerifyToken(token, token_type, t) ==
    IF JwtDecodeRaises(token, t) THEN RaisedOnJWTError
    ELSE IF token.sub = None \/ token.type # token_type THEN RaisedOnClaims
    ELSE Accepted(token.sub)

VerifyAccessToken(token, t) == VerifyToken(token, ACCESS, t)

VerifyRefreshToken(token, t) == VerifyToken(token, REFRESH, t)

\* What a client can present besides an issued credential: an issued one with
\* a claim rewritten and the signature kept, a payload signed with another
\* key, and a payload under the server's signature that lacks its subject.
Tampered(c) ==
    {[c EXCEPT !.type = k] : k \in Kinds \ {c.type}}
    \cup {[c EXCEPT !.exp = c.exp + Days(REFRESH_TOKEN_EXPIRE_DAYS)]}
    \cup {[c EXCEPT !.sub = u] : u \in UserIds \ {c.sub}}

Forged(c) == {JwtEncode(c.sub, c.exp, c.type, OtherKey)}

Subjectless(c) == {JwtEncode(None, c.exp, c.type, SECRET_KEY)}

Presentable ==
    minted \cup UNION {Tampered(c) \cup Forged(c) \cup Subjectless(c) : c \in minted}

\* why a presented credential is not a valid credential of the expected kind
Cause(token, token_type, t) ==
    IF token.sig[4] # SECRET_KEY THEN "bad_signature"
    ELSE IF token.sig # Sign(token.sub, token.exp, token.type, SECRET_KEY)
    THEN "tampered"
    ELSE IF token.exp < t THEN "expired"
    ELSE IF token.sub = None THEN "missing_subject"
    ELSE IF token.type # token_type THEN "wrong_kind"
    ELSE "none"

NoProbe == [outcome |-> [status |-> 0]]
NoRefresh == [status |-> 0]

\* the users table of a running system: one verified account
RegisteredUsers ==
    [id \in {"u1"} |->
        [id |-> id, email |-> "alice", email_verified |-> TRUE,
         avatar_url |-> None]]

SessionInit ==
    /\ minted = {}
    /\ probe = NoProbe
    /\ refreshed = NoRefresh

\* create_access_token / create_refresh_token, as login, signup and the OAuth
\* callback call them for a user of the table
Mint(u, kind) ==
    /\ Cardinality(minted) < MaxMinted
    /\ minted' = minted \cup {IF kind = ACCESS THEN CreateAccessToken(u, now)
                                               ELSE CreateRefreshToken(u, now)}
    /\ UNCHANGED <<clockVars, tokenVars, probe, refreshed, userVars>>

\* one call of verify_token
Verify(token, kind) ==
    /\ probe' = [token |-> token, kind |-> kind, at |-> now,
                 outcome |-> VerifyToken(token, kind, now)]
    /\ UNCHANGED <<clockVars, tokenVars, minted, refreshed, userVars>>

\* get_user_by_id
GetUserById(U, user_id) == {U[id] : id \in DOMAIN U \cap {user_id}}

RefreshFailed ==
    [status |-> 401, detail |-> "Invalid refresh token", access_token |-> None,
     refresh_token |-> None, token_type |-> None]

\* the presented credential is verified as an access credential
RefreshResponse_VerifiesAccess(token, U, t) ==
    LET v == VerifyAccessToken(token, t)
    IN IF v.status # 200 THEN RefreshFailed
       ELSE IF GetUserById(U, v.user_id) = {} THEN RefreshFailed
       ELSE [status |-> 200, detail |-> "",
             access_token |-> CreateAccessToken(v.user_id, t),
             refresh_token |-> None, token_type |-> "bearer"]

\* the handler refresh_token of /auth/refresh: every exception, the
\* HTTPException of verify_refresh_token included, becomes the same 401
RefreshResponse(token, U, t) ==
    LET v == VerifyRefreshToken(token, t)
    IN IF v.status # 200 THEN RefreshFailed
       ELSE IF GetUserById(U, v.user_id) = {} THEN RefreshFailed
       ELSE [status |-> 200, detail |-> "",
             access_token |->
                 CreateAccessToken((CHOOSE user \in GetUserById(U, v.user_id) : TRUE).id, t),
             refresh_token |-> None, token_type |-> "bearer"]

\* one /auth/refresh request; get_user_by_id may raise
Refresh(token) ==
    /\ \/ /\ refreshed' = [status |-> RefreshResponse(token, users, now).status,
                           presented |-> token, at |-> now,
                           response |-> RefreshResponse(token, users, now)]
          /\ minted' = IF RefreshResponse(token, users, now).status = 200
                       THEN minted \cup
                            {RefreshResponse(token, users, now).access_token}
                       ELSE minted
       \/ /\ VerifyRefreshToken(token, now).status = 200
          /\ refreshed' = [status |-> 401, presented |-> token, at |-> now,
                           response |-> RefreshFailed]
          /\ UNCHANGED minted
    /\ Cardinality(minted') <= MaxMinted
    /\ UNCHANGED <<clockVars, tokenVars, probe, userVars>>

SessionTick ==
    /\ ticks < MaxSessionTicks
    /\ \E d \in SessionClockSteps : now' = now + d
    /\ ticks' = ticks + 1
    /\ UNCHANGED <<tokenVars, sessionVars, userVars>>

\* ------------------------------------------------ users and OAuth login

OAuthEmails == {"alice", "bob"}
LocalAvatar == "local.png"
ExternalAvatar == "google.png"

\* user_data of handle_google_callback: email, picture, verified_email
ExternalProfiles ==
    [email : OAuthEmails, avatar_url : {None, ExternalAvatar},
     email_verified : BOOLEAN]

NoProfile == [email |-> "", avatar_url |-> None, email_verified |-> FALSE]

UserRow(id, email, verified, avatar) ==
    [id |-> id, email |-> email, email_verified |-> verified,
     avatar_url |-> avatar]

\* users.select("*").eq("email", email)
GetUserByEmail(U, email) == {id \in DOMAIN U : U[id].email = email}

\* uuid4 / the id Supabase auth hands out: an id no row has
NewUserId(U) == CHOOSE id \in UserIds : id \notin DOMAIN U

\* the users table has no index on email
UniqueEmail_NoIndex(U, email) == TRUE

\* the Credential Store keys users by unique email: an insert of a second row
\* with an email the table holds is refused
UniqueEmail(U, email) == GetUserByEmail(U, email) = {}

InsertUser(U, row) == [id \in DOMAIN U \cup {row.id} |-> IF id = row.id THEN row ELSE U[id]]

\* update_data of the found branch: email_verified is TRUE when the key is
\* set (its value is always True), avatar_url is None when the key is absent
NoUpdate == [email_verified |-> FALSE, avatar_url |-> None]

\* the avatar of the external profile is written whenever it has one
OAuthUpdateData_AvatarAlways(existing, user_data) ==
    [email_verified |-> ~existing.email_verified /\ user_data.email_verified,
     avatar_url |-> user_data.avatar_url]

OAuthUpdateData(existing, user_data) ==
    [email_verified |-> ~existing.email_verified /\ user_data.email_verified,
     avatar_url |-> IF user_data.avatar_url # None /\ existing.avatar_url = None
                    THEN user_data.avatar_url ELSE None]

\* users.update(update_data).eq("id", user_id)
UpdateUser(U, user_id, update_data) ==
    [U EXCEPT ![user_id] =
        [@ EXCEPT !.email_verified = IF update_data.email_verified THEN TRUE ELSE @,
                  !.avatar_url = IF update_data.avatar_url # None
                                 THEN update_data.avatar_url ELSE @]]

NoCall == [profile |-> NoProfile, found |-> FALSE, outcome |-> "none",
           count |-> 0, verified |-> FALSE]

OIdle == [pc |-> "done", outcome |-> "none", profile |-> NoProfile,
          found |-> FALSE, user |-> None, update_data |-> NoUpdate,
          wrote |-> FALSE, count |-> 0, verified |-> FALSE, prev |-> NoCall]

OAuthInit ==
    /\ ocall = [p \in Procs |-> OIdle]
    /\ last = NoCall

\* what a completed call leaves for the next one to compare with
Completed(c, outcome) ==
    [profile |-> c.profile, found |-> c.found, outcome |-> outcome,
     count |-> c.count, verified |-> c.verified]

\* /auth/signup with one request at a time: the email is free, the row is
\* inserted unverified
Signup(email, avatar) ==
    /\ GetUserByEmail(users, email) = {}
    /\ UserIds \ DOMAIN users # {}
    /\ users' = InsertUser(users, UserRow(NewUserId(users), email, FALSE, avatar))
    /\ last' = NoCall
    /\ UNCHANGED <<clockVars, tokenVars, sessionVars, ocall>>

\* mark_email_verified
MarkEmailVerified(email) ==
    /\ \E id \in GetUserByEmail(users, email) : ~users[id].email_verified
    /\ users' = [id \in DOMAIN users |->
                    IF users[id].email = email
                    THEN [users[id] EXCEPT !.email_verified = TRUE]
                    ELSE users[id]]
    /\ last' = NoCall
    /\ UNCHANGED <<clockVars, tokenVars, sessionVars, ocall>>

\* PUT /user/profile with the avatar field set, possibly to null
UpdateProfile(id, avatar) ==
    /\ users[id].avatar_url # avatar
    /\ users' = [users EXCEPT ![id].avatar_url = avatar]
    /\ last' = NoCall
    /\ UNCHANGED <<clockVars, tokenVars, sessionVars, ocall>>

\* create_or_get_oauth_user up to its first write: the lookup by email, and
\* for a found user the update_data; an empty update_data returns at once
OAuthLookup(p, user_data) ==
    /\ ocall[p].pc = "done"
    /\ LET found == GetUserByEmail(users, user_data.email)
           c0 == [OIdle EXCEPT !.profile = user_data, !.prev = last,
                               !.count = Cardinality(DOMAIN users)]
       IN \/ \E id \in found :
               LET c == [c0 EXCEPT !.found = TRUE, !.user = id,
                                   !.verified = users[id].email_verified,
                                   !.update_data = OAuthUpdateData(users[id], user_data)]
               IN IF c.update_data = NoUpdate
                  THEN /\ ocall' = [ocall EXCEPT ![p] = [c EXCEPT !.outcome = "returned"]]
                       /\ last' = Completed(c, "returned")
                  ELSE /\ ocall' = [ocall EXCEPT ![p] =
                                        [c EXCEPT !.pc = "update", !.outcome = "running"]]
                       /\ last' = NoCall
          \/ /\ found = {}
             /\ ocall' = [ocall EXCEPT ![p] =
                              [c0 EXCEPT !.pc = "create", !.outcome = "running"]]
             /\ last' = NoCall
          \/ /\ ocall' = [ocall EXCEPT ![p] = [c0 EXCEPT !.outcome = "raised"]]
             /\ last' = NoCall
    /\ UNCHANGED <<clockVars, tokenVars, sessionVars, users>>

\* the found branch: update_user(existing_user["id"], update_data)
OAuthUpdate(p) ==
    /\ ocall[p].pc = "update"
    /\ LET c == [ocall[p] EXCEPT !.pc = "done", !.wrote = TRUE]
       IN \/ /\ users' = UpdateUser(users, c.user, c.update_data)
             /\ ocall' = [ocall EXCEPT ![p] = [c EXCEPT !.outcome = "returned"]]
             /\ last' = Completed(c, "returned")
          \/ /\ ocall' = [ocall EXCEPT ![p] = [c EXCEPT !.outcome = "raised"]]
             /\ last' = NoCall
             /\ UNCHANGED users
    /\ UNCHANGED <<clockVars, tokenVars, sessionVars>>

\* the new branch: create_user_from_dict inserts a verified row
OAuthCreate(p) ==
    /\ ocall[p].pc = "create"
    /\ \/ /\ UserIds \ DOMAIN users # {}
          /\ UniqueEmail(users, ocall[p].profile.email)
          /\ users' = InsertUser(users, UserRow(NewUserId(users), ocall[p].profile.email,
                                                TRUE, ocall[p].profile.avatar_url))
          /\ ocall' = [ocall EXCEPT ![p] = [@ EXCEPT !.pc = "oauth_update",
                                                     !.user = NewUserId(users)]]
       \/ /\ ocall' = [ocall EXCEPT ![p] = [@ EXCEPT !.pc = "done", !.outcome = "raised"]]
          /\ UNCHANGED users
    /\ last' = NoCall
    /\ UNCHANGED <<clockVars, tokenVars, sessionVars>>

\* the new branch: update_user(user["id"], {"email_verified": ...}) writes the
\* flag of the external profile
OAuthCreatedUpdate(p) ==
    /\ ocall[p].pc = "oauth_update"
    /\ LET c == [ocall[p] EXCEPT !.pc = "done", !.wrote = TRUE]
       IN \/ /\ users' = [users EXCEPT ![c.user].email_verified = c.profile.email_verified]
             /\ ocall' = [ocall EXCEPT ![p] = [c EXCEPT !.outcome = "returned"]]
             /\ last' = Completed(c, "returned")
          \/ /\ ocall' = [ocall EXCEPT ![p] = [c EXCEPT !.outcome = "raised"]]
             /\ last' = NoCall
             /\ UNCHANGED users
    /\ UNCHANGED <<clockVars, tokenVars, sessionVars>>

\* /auth/signup up to its insert: the lookup by email; a taken email is
\* answered 400
SignupLookup(p, email, avatar) ==
    /\ ocall[p].pc = "done"
    /\ LET c0 == [OIdle EXCEPT !.profile = [email |-> email, avatar_url |-> avatar,
                                            email_verified |-> FALSE]]
       IN \/ /\ GetUserByEmail(users, email) # {}
             /\ ocall' = [ocall EXCEPT ![p] = [c0 EXCEPT !.outcome = "raised"]]
          \/ /\ GetUserByEmail(users, email) = {}
             /\ ocall' = [ocall EXCEPT ![p] =
                              [c0 EXCEPT !.pc = "signup_create", !.outcome = "running"]]
    /\ last' = NoCall
    /\ UNCHANGED <<clockVars, tokenVars, sessionVars, users>>

\* /auth/signup: create_user inserts the unverified row, or raises
SignupCreate(p) ==
    /\ ocall[p].pc = "signup_create"
    /\ \/ /\ UserIds \ DOMAIN users # {}
          /\ UniqueEmail(users, ocall[p].profile.email)
          /\ users' = InsertUser(users, UserRow(NewUserId(users), ocall[p].profile.email,
                                                FALSE, ocall[p].profile.avatar_url))
          /\ ocall' = [ocall EXCEPT ![p] = [@ EXCEPT !.pc = "done",
                                                     !.user = NewUserId(users),
                                                     !.outcome = "returned"]]
       \/ /\ ocall' = [ocall EXCEPT ![p] = [@ EXCEPT !.pc = "done", !.outcome = "raised"]]
          /\ UNCHANGED users
    /\ last' = NoCall
    /\ UNCHANGED <<clockVars, tokenVars, sessionVars>>

\* the requests that write the users table besides OAuth login
UserWrites ==
    \/ \E e \in OAuthEmails, a \in {None, LocalAvatar} : Signup(e, a)
    \/ \E e \in OAuthEmails : MarkEmailVerified(e)
    \/ \E id \in DOMAIN users, a \in {None, LocalAvatar} : UpdateProfile(id, a)

OAuthNext(P, D) ==
    \/ \E p \in P, d \in D : OAuthLookup(p, d)
    \/ \E p \in P : OAuthUpdate(p)
    \/ \E p \in P : OAuthCreate(p)
    \/ \E p \in P : OAuthCreatedUpdate(p)

\* ------------------------------------------------------ OAuth state nonce

OAUTH_STATE_EXPIRE_MINUTES == 10

Instances == {"i1", "i2"}
GOOGLE == "google"
Providers == {GOOGLE, "github"}
NonceClockSteps == {1, OAUTH_STATE_EXPIRE_MINUTES}

\* state_data of store_oauth_state
StateData(provider, t) ==
    [provider |-> provider, expires_at |-> t + OAUTH_STATE_EXPIRE_MINUTES,
     used |-> FALSE, created_at |-> t]

\* self._oauth_states[state] = state_data
PutState(S, state, data) ==
    [n \in DOMAIN S \cup {state} |-> IF n = state THEN data ELSE S[n]]

\* the checks of verify_oauth_state in their order; "ok" when all pass
StateVerdict(S, state, provider, t) ==
    IF state \notin DOMAIN S THEN "not_found"
    ELSE IF S[state].provider # provider THEN "provider_mismatch"
    ELSE IF S[state].used THEN "already_used"
    ELSE IF S[state].expires_at < t THEN "expired"
    ELSE "ok"

\* the nonce is left as it was
StatesAfterVerify_NotMarked(S, state, provider, t) == S

\* the nonce is marked before the checks
StatesAfterVerify_MarkedFirst(S, state, provider, t) ==
    IF state \in DOMAIN S THEN [S EXCEPT ![state].used = TRUE] ELSE S

\* state_data["used"] = True, reached only when every check passed
StatesAfterVerify(S, state, provider, t) ==
    IF StateVerdict(S, state, provider, t) = "ok"
    THEN [S EXCEPT ![state].used = TRUE]
    ELSE S

NoVerify == [state |-> 0, provider |-> "", verdict |-> "none", result |-> FALSE]

NonceInit ==
    /\ oauth_states = [i \in Instances |-> <<>>]
    /\ nextState = 1
    /\ accepts = [n \in 1..MaxStates |-> 0]
    /\ checked = NoVerify

\* get_google_auth_url / store_oauth_state on one instance
StoreOAuthState(i, provider) ==
    /\ nextState <= MaxStates
    /\ oauth_states' = [oauth_states EXCEPT
                           ![i] = PutState(@, nextState, StateData(provider, now))]
    /\ nextState' = nextState + 1
    /\ UNCHANGED <<accepts, checked>>

\* verify_oauth_state on one instance: a synchronous method, so no other
\* request of the instance runs between its checks and its write
VerifyOAuthState(i, state, provider) ==
    /\ accepts[state] < MaxAccepts
    /\ LET v == StateVerdict(oauth_states[i], state, provider, now)
       IN /\ checked' = [state |-> state, provider |-> provider,
                         verdict |-> v, result |-> (v = "ok")]
          /\ accepts' = [accepts EXCEPT ![state] = IF v = "ok" THEN @ + 1 ELSE @]
    /\ oauth_states' = [oauth_states EXCEPT
                           ![i] = StatesAfterVerify(@, state, provider, now)]
    /\ UNCHANGED nextState

\* an instance restarts: OAuthService.__init__ starts with an empty store
Restart(i) ==
    /\ oauth_states[i] # <<>>
    /\ oauth_states' = [oauth_states EXCEPT ![i] = <<>>]
    /\ UNCHANGED <<nextState, accepts, checked>>

NonceTick ==
    /\ ticks < MaxNonceTicks
    /\ \E d \in NonceClockSteps : now' = now + d
    /\ ticks' = ticks + 1
    /\ UNCHANGED <<nonceVars>>

NonceNext ==
    /\ \/ \E i \in Instances, p \in Providers :
             StoreOAuthState(i, p) /\ UNCHANGED clockVars
       \/ \E i \in Instances, n \in 1..MaxStates, p \in Providers :
             n < nextState /\ VerifyOAuthState(i, n, p) /\ UNCHANGED clockVars
       \/ \E i \in Instances : Restart(i) /\ UNCHANGED clockVars
       \/ NonceTick
    /\ UNCHANGED <<tokenVars, sessionVars, userVars, callbackVars, requestVars, appVars>>


\* the token ledger under concurrent request handlers
\* ------------------------------------------------ /auth/google/callback

\* stage: "state" (verify_oauth_state), "exchange" (the code exchange),
\* "userinfo" (the profile fetch), "reconcile" (create_or_get_oauth_user)
CallbackIdle ==
    [pc |-> "done", outcome |-> "none", failed_at |-> "", passed |-> {},
     profile |-> NoProfile, tokens |-> {}]

CallbackInit == cb = [p \in Procs |-> CallbackIdle]

\* the result of verify_oauth_state is not looked at
NextStage_StateUnchecked(stage, ok) ==
    IF stage = "state" THEN "exchange"
    ELSE IF ~ok THEN "done"
    ELSE IF stage = "exchange" THEN "userinfo"
    ELSE "reconcile"

\* a failed profile fetch goes on with the profile at hand
NextStage_UserInfoUnchecked(stage, ok) ==
    IF stage = "userinfo" THEN "reconcile"
    ELSE IF ~ok THEN "done"
    ELSE IF stage = "state" THEN "exchange"
    ELSE "userinfo"

\* handle_google_callback: each stage raises on failure, which ends the call
NextStage(stage, ok) ==
    IF ~ok THEN "done"
    ELSE IF stage = "state" THEN "exchange"
    ELSE IF stage = "exchange" THEN "userinfo"
    ELSE "reconcile"

\* the record of a call after a stage; a raise is answered by the redirect
\* with error=oauth_callback_failed
AfterStage(c, stage, ok) ==
    [c EXCEPT !.pc = NextStage(stage, ok),
              !.outcome = IF NextStage(stage, ok) = "done" THEN "failed" ELSE "running",
              !.failed_at = IF ok THEN "" ELSE stage,
              !.passed = IF ok THEN @ \cup {stage} ELSE @]

\* google_oauth_callback up to the code exchange: verify_oauth_state
CallbackVerify(p, i, state) ==
    /\ cb[p].pc = "done"
    /\ VerifyOAuthState(i, state, GOOGLE)
    /\ cb' = [cb EXCEPT ![p] = AfterStage(CallbackIdle, "state", checked'.result)]
    /\ UNCHANGED <<clockVars, tokenVars, sessionVars, userVars>>

\* the code exchange: requests.post to the token endpoint, ok or not
CallbackExchange(p) ==
    /\ cb[p].pc = "exchange"
    /\ \E ok \in BOOLEAN : cb' = [cb EXCEPT ![p] = AfterStage(@, "exchange", ok)]
    /\ UNCHANGED <<clockVars, tokenVars, sessionVars, userVars, nonceVars>>

\* the profiles the userinfo endpoint answers with: one Google account
CallbackProfiles == {d \in ExternalProfiles : d.email = "alice"}

\* the profile fetch: requests.get to the userinfo endpoint, ok or not
CallbackUserInfo(p) ==
    /\ cb[p].pc = "userinfo"
    /\ \E ok \in BOOLEAN, d \in CallbackProfiles :
          cb' = [cb EXCEPT ![p] = [AfterStage(@, "userinfo", ok) EXCEPT
                                      !.profile = IF ok THEN d ELSE NoProfile]]
    /\ UNCHANGED <<clockVars, tokenVars, sessionVars, userVars, nonceVars>>

\* create_or_get_oauth_user is called with the fetched profile
CallbackReconcile(p) ==
    /\ cb[p].pc = "reconcile"
    /\ OAuthLookup(p, cb[p].profile)
    /\ cb' = [cb EXCEPT ![p].pc = "reconciling"]
    /\ UNCHANGED nonceVars

\* the steps of create_or_get_oauth_user after its lookup
CallbackReconciling(p) ==
    /\ cb[p].pc = "reconciling"
    /\ OAuthUpdate(p) \/ OAuthCreate(p) \/ OAuthCreatedUpdate(p)
    /\ UNCHANGED <<nonceVars, callbackVars>>

\* create_or_get_oauth_user returned: both credentials are minted and put in
\* the redirect; it raised: the redirect carries the error. The handler's
\* locals end with it.
CallbackFinish(p) ==
    /\ cb[p].pc = "reconciling"
    /\ ocall[p].pc = "done"
    /\ IF ocall[p].outcome = "returned"
       THEN LET tokens == {CreateAccessToken(ocall[p].user, now),
                           CreateRefreshToken(ocall[p].user, now)}
            IN /\ minted' = minted \cup tokens
               /\ cb' = [cb EXCEPT ![p] = [AfterStage(@, "reconcile", TRUE) EXCEPT
                                               !.pc = "done", !.outcome = "redirected",
                                               !.profile = NoProfile,
                                               !.tokens = tokens]]
       ELSE /\ cb' = [cb EXCEPT ![p] = [AfterStage(@, "reconcile", FALSE) EXCEPT
                                            !.profile = NoProfile]]
            /\ UNCHANGED minted
    /\ ocall' = [ocall EXCEPT ![p] = OIdle]
    /\ last' = NoCall
    /\ UNCHANGED <<clockVars, tokenVars, probe, refreshed, users, nonceVars>>

\* the clock moves past the lifetime of a state nonce
CallbackTick ==
    /\ ticks < MaxNonceTicks
    /\ now' = now + OAUTH_STATE_EXPIRE_MINUTES + 1
    /\ ticks' = ticks + 1
    /\ UNCHANGED <<tokenVars, sessionVars, userVars, nonceVars, callbackVars>>

CallbackNext(P, I) ==
    \/ \E i \in I : StoreOAuthState(i, GOOGLE)
                      /\ UNCHANGED <<clockVars, tokenVars, sessionVars, userVars, callbackVars>>
    \/ \E p \in P, i \in I, n \in 1..MaxStates : CallbackVerify(p, i, n)
    \/ \E p \in P : CallbackExchange(p)
    \/ \E p \in P : CallbackUserInfo(p)
    \/ \E p \in P : CallbackReconcile(p)
    \/ \E p \in P : CallbackReconciling(p)
    \/ \E p \in P : CallbackFinish(p)
    \/ CallbackTick

\* --------------------------------- /auth/forgot-password and /auth/login

DEMO_EMAIL == "demo@safedoser.com"
RequestEmails == {"alice", "bob"}
LoginEmails == {"alice", "bob", DEMO_EMAIL}

NoReply == [status |-> 0]

ReqIdle == [endpoint |-> "none", pc |-> "done", email |-> "", token |-> 0,
            known |-> FALSE, password_ok |-> FALSE, reply |-> NoReply]

RequestInit == req = [p \in Procs |-> ReqIdle]

\* a JSON body: the set of its <<field, value>> pairs
ForgotMessage == "If the email exists in our system, a reset link has been sent"

\* the body of forgot_password for each way the handler ends
ForgotBody(ending) ==
    {<<"message", ForgotMessage>>}
    \cup (CASE ending = "sent" -> {<<"email_sent", "true">>}
            [] ending = "user_not_found" ->
                {<<"email_sent", "false">>, <<"reason", "User not found">>}
            [] ending = "store_failed" ->
                {<<"email_sent", "false">>, <<"reason", "Token storage failed">>}
            [] ending = "send_failed" ->
                {<<"email_sent", "false">>, <<"reason", "email_result.message">>,
                 <<"error_code", "email_result.error_code">>}
            [] OTHER ->
                {<<"email_sent", "false">>, <<"reason", "Internal error">>})

ForgotReply(ending) == [status |-> 200, body |-> ForgotBody(ending)]

\* forgot_password up to store_reset_token: the lookup of the user
ForgotLookup(p, email) ==
    /\ req[p].pc = "done"
    /\ Ready(p)
    /\ LET r == [ReqIdle EXCEPT !.endpoint = "forgot", !.email = email]
       IN \/ /\ GetUserByEmail(users, email) = {}
             /\ req' = [req EXCEPT ![p] =
                           [r EXCEPT !.reply = ForgotReply("user_not_found")]]
          \/ /\ GetUserByEmail(users, email) # {}
             /\ req' = [req EXCEPT ![p] = [r EXCEPT !.pc = "store", !.known = TRUE]]
          \/ /\ req' = [req EXCEPT ![p] =
                           [r EXCEPT !.known = GetUserByEmail(users, email) # {},
                                     !.reply = ForgotReply("internal_error")]]
    /\ UNCHANGED <<clockVars, tokenVars>>

\* store_reset_token: its invalidation, then its insert
ForgotStore(p) ==
    /\ \/ /\ req[p].pc = "store"
          /\ StoreInvalidate(p, req[p].email, PASSWORD_RESET)
          /\ req' = [req EXCEPT ![p].pc = "storing"]
       \/ /\ req[p].pc = "storing"
          /\ StoreInsert(p)
          /\ req' = [req EXCEPT ![p].pc = "send"]

\* the rest of forgot_password: a failed store, or the reset email sent or not
ForgotSend(p) ==
    /\ req[p].pc = "send"
    /\ IF call[p].result = "false"
       THEN req' = [req EXCEPT ![p] = [@ EXCEPT !.pc = "done",
                                                !.reply = ForgotReply("store_failed")]]
       ELSE \E ending \in {"sent", "send_failed", "internal_error"} :
               req' = [req EXCEPT ![p] = [@ EXCEPT !.pc = "done",
                                                   !.reply = ForgotReply(ending)]]
    /\ UNCHANGED <<clockVars, tokenVars>>

ForgotNext ==
    /\ \/ \E p \in Procs, e \in RequestEmails : ForgotLookup(p, e)
       \/ \E p \in Procs : ForgotStore(p)
       \/ \E p \in Procs : ForgotSend(p)
    /\ UNCHANGED <<sessionVars, userVars, nonceVars, callbackVars, appVars>>

\* verify_email and reset_password: the reply to what verify_token returned;
\* "true" goes on to the update of the user
InvalidTokenDetail(ttype) ==
    IF ttype = EMAIL_VERIFICATION THEN "Invalid or expired verification token"
    ELSE "Invalid or expired reset token"

TokenCallerReply(ttype, is_valid) ==
    IF is_valid = "true" THEN [status |-> 200, detail |-> ""]
    ELSE [status |-> 400, detail |-> InvalidTokenDetail(ttype)]

\* the password of an account, and a password of no account
PasswordOf(email) == <<"password of", email>>
WrongPassword == <<"password of", "nobody">>

\* pwd_context.hash / pwd_context.verify
HashPassword(password) == <<"bcrypt", password>>
VerifyPassword(plain_password, hashed_password) ==
    hashed_password = HashPassword(plain_password)

\* the users table with password hashes: a verified account and the demo
\* account
LoginUsers ==
    [id \in {"u1", "u2"} |->
        [id |-> id, email |-> IF id = "u1" THEN "alice" ELSE DEMO_EMAIL,
         email_verified |-> TRUE, avatar_url |-> None,
         password_hash |-> HashPassword(PasswordOf(IF id = "u1" THEN "alice"
                                                               ELSE DEMO_EMAIL))]]

\* authenticate_user: the users it returns, none when it returns None
AuthenticateUser(U, email, password) ==
    {id \in GetUserByEmail(U, email) :
        email = DEMO_EMAIL \/ VerifyPassword(password, U[id].password_hash)}

LoginRefused ==
    [status |-> 401, detail |-> "Invalid email or password", tokens |-> {}]

\* /auth/login: authenticate_user, then both credentials; an exception in
\* authenticate_user is answered like a refusal
Login(p, email, password) ==
    /\ req[p].pc = "done"
    /\ LET r == [ReqIdle EXCEPT
                    !.endpoint = "login", !.email = email,
                    !.known = GetUserByEmail(users, email) # {},
                    !.password_ok =
                        \E id \in GetUserByEmail(users, email) :
                            VerifyPassword(password, users[id].password_hash)]
       IN \/ /\ AuthenticateUser(users, email, password) = {}
             /\ req' = [req EXCEPT ![p] = [r EXCEPT !.reply = LoginRefused]]
             /\ UNCHANGED minted
          \/ \E id \in AuthenticateUser(users, email, password) :
                LET tokens == {CreateAccessToken(id, now), CreateRefreshToken(id, now)}
                IN /\ req' = [req EXCEPT ![p] =
                                 [r EXCEPT !.reply = [status |-> 200, detail |-> "",
                                                      tokens |-> tokens]]]
                   /\ minted' = minted \cup tokens
          \/ /\ req' = [req EXCEPT ![p] = [r EXCEPT !.reply = LoginRefused]]
             /\ UNCHANGED minted
    /\ UNCHANGED <<clockVars, tokenVars, probe, refreshed, userVars, nonceVars,
                   callbackVars, appVars>>

LoginNext ==
    \E p \in Procs, e \in LoginEmails,
       pw \in {PasswordOf(a) : a \in LoginEmails} \cup {WrongPassword} :
        Login(p, e, pw)

\* ------------------------- get_current_user and /auth/verify-email

\* has_valid_verification_token: an unused verification row of the email with
\* expires_at > now exists
HasValidVerificationToken(L, email, t) == Live(L, email, EMAIL_VERIFICATION, t) # {}

\* the users table with two accounts that have not verified their email, one
\* of them the demo account
UnverifiedUsers ==
    [id \in {"u1", "u2"} |->
        UserRow(id, IF id = "u1" THEN "alice" ELSE DEMO_EMAIL, FALSE, None)]

\* get_user_by_id, which has no verification check, in its place
NeedsVerification_Skipped(user) == FALSE

\* get_user_by_id_with_verification_check: does it refuse the user and send a
\* verification email
NeedsVerification(user) == user.email # DEMO_EMAIL /\ ~user.email_verified

EmailNotVerified(emailed) ==
    [status |-> 401,
     detail |-> "Email not verified. A new verification email has been sent to your inbox.",
     emailed |-> emailed]

\* get_current_user for a valid access credential of user_id, up to the
\* invalidation inside store_verification_token
GetCurrentUser(p, user_id) ==
    /\ req[p].pc = "done"
    /\ Ready(p)
    /\ \E user \in GetUserById(users, user_id) :
        LET r == [ReqIdle EXCEPT !.endpoint = "current_user",
                                 !.email = user.email, !.known = TRUE]
        IN IF NeedsVerification(user)
           THEN /\ StoreInvalidate(p, user.email, EMAIL_VERIFICATION)
                /\ req' = [req EXCEPT ![p] = [r EXCEPT !.pc = "resend"]]
           ELSE /\ req' = [req EXCEPT ![p] =
                              [r EXCEPT !.reply = [status |-> 200]]]
                /\ UNCHANGED <<clockVars, tokenVars>>
    /\ UNCHANGED users

\* _send_verification_email_for_user from the insert on: the email is sent
\* when the token was stored, and the request is refused either way
ResendInsert(p) ==
    /\ req[p].pc = "resend"
    /\ StoreInsert(p)
    /\ \E sent \in BOOLEAN :
        req' = [req EXCEPT ![p] =
                   [@ EXCEPT !.pc = "done",
                             !.reply = EmailNotVerified(
                                 call'[p].result = "true" /\ sent)]]
    /\ UNCHANGED users

\* the rpc mark_user_email_verified
MarkedVerified(U, email) ==
    [id \in DOMAIN U |->
        IF U[id].email = email THEN [U[id] EXCEPT !.email_verified = TRUE]
        ELSE U[id]]

\* the token_type /auth/verify-email and /auth/reset-password pass to
\* verify_token
EndpointOf(ttype) ==
    IF ttype = EMAIL_VERIFICATION THEN "verify_email" ELSE "reset_password"

TokenTypeOf(endpoint) ==
    IF endpoint = "verify_email" THEN EMAIL_VERIFICATION ELSE PASSWORD_RESET

\* /auth/verify-email and /auth/reset-password: verify_token's select and
\* expiry check for the email and the token of the request
TokenCheck(p, email, token, ttype) ==
    /\ req[p].pc = "done"
    /\ VerifyLookup(p, email, token, ttype)
    /\ req' = [req EXCEPT ![p] =
                  [ReqIdle EXCEPT !.endpoint = EndpointOf(ttype), !.pc = "verify",
                                  !.email = email, !.token = token]]
    /\ UNCHANGED users

VerifyEmailLookup(p, email, token) ==
    TokenCheck(p, email, token, EMAIL_VERIFICATION)

\* verify_token's conditional update
VerifyEmailUpdate(p) ==
    /\ req[p].pc = "verify"
    /\ VerifyUpdate(p)
    /\ UNCHANGED <<users, req>>

\* the rest of verify_email: the reply to a refused token, the lookup of the
\* user and mark_email_verified
VerifyEmailFinish(p) ==
    /\ req[p].pc = "verify"
    /\ req[p].endpoint = "verify_email"
    /\ call[p].pc = "done"
    /\ LET email == req[p].email
           finish(status, detail) ==
               req' = [req EXCEPT ![p] =
                          [@ EXCEPT !.pc = "done",
                                    !.known = GetUserByEmail(users, email) # {},
                                    !.reply = [status |-> status, detail |-> detail]]]
       IN IF call[p].result # "true"
          THEN /\ finish(TokenCallerReply(EMAIL_VERIFICATION, call[p].result).status,
                         TokenCallerReply(EMAIL_VERIFICATION, call[p].result).detail)
               /\ UNCHANGED users
          ELSE \/ /\ GetUserByEmail(users, email) = {}
                  /\ finish(404, "User not found")
                  /\ UNCHANGED users
               \/ /\ finish(500, "Email verification failed")
                  /\ UNCHANGED users
               \/ /\ GetUserByEmail(users, email) # {}
                  /\ \/ /\ users' = MarkedVerified(users, email)
                        /\ finish(200, "Email verified successfully")
                     \/ /\ finish(500, "Failed to verify email")
                        /\ UNCHANGED users
    /\ UNCHANGED <<clockVars, tokenVars>>

NewPassword == <<"password of", "reset">>

\* the rest of reset_password: the reply to a refused token, the lookup of
\* the user and the update of the password to new_password
ResetPasswordFinishWith(p, new_password) ==
    /\ req[p].pc = "verify"
    /\ req[p].endpoint = "reset_password"
    /\ call[p].pc = "done"
    /\ LET email == req[p].email
           finish(status, detail) ==
               req' = [req EXCEPT ![p] =
                          [@ EXCEPT !.pc = "done",
                                    !.known = GetUserByEmail(users, email) # {},
                                    !.reply = [status |-> status, detail |-> detail]]]
       IN IF call[p].result # "true"
          THEN /\ finish(TokenCallerReply(PASSWORD_RESET, call[p].result).status,
                         TokenCallerReply(PASSWORD_RESET, call[p].result).detail)
               /\ UNCHANGED users
          ELSE \/ /\ GetUserByEmail(users, email) = {}
                  /\ finish(404, "User not found")
                  /\ UNCHANGED users
               \/ /\ finish(500, "Password reset failed")
                  /\ UNCHANGED users
               \/ \E id \in GetUserByEmail(users, email) :
                     \/ /\ users' = [users EXCEPT ![id].password_hash =
                                                     HashPassword(new_password)]
                        /\ finish(200, "Password reset successfully")
                     \/ /\ finish(500, "Failed to update user")
                        /\ UNCHANGED users
    /\ UNCHANGED <<clockVars, tokenVars>>

ResetPasswordFinish(p) == ResetPasswordFinishWith(p, NewPassword)


\* the store call of /auth/signup and /auth/forgot-password for a pair
IssueTokenOf(p, email, ttype) ==
    /\ req[p].pc = "done"
    /\ \/ StoreInvalidate(p, email, ttype)
       \/ StoreInsert(p)
    /\ UNCHANGED <<users, req>>

PairEmails == {"alice", "bob"}

\* the token requests over two emails and both purposes, within the lifetime
\* of the tokens
PairsNext(P) ==
    /\ \/ \E p \in P, e \in PairEmails, ty \in TokenTypes : IssueTokenOf(p, e, ty)
       \/ \E p \in P, e \in PairEmails, tok \in 1..MaxRows, ty \in TokenTypes :
             tok < nextId /\ TokenCheck(p, e, tok, ty)
       \/ \E p \in P : VerifyEmailUpdate(p)
       \/ \E p \in P : VerifyEmailFinish(p)
       \/ \E p \in P : ResetPasswordFinish(p)
    /\ UNCHANGED <<sessionVars, ocall, last, nonceVars, callbackVars, appVars>>

\* the store call of /auth/signup and /auth/resend-verification
IssueToken(p, email) ==
    /\ req[p].pc = "done"
    /\ \/ StoreInvalidate(p, email, EMAIL_VERIFICATION)
       \/ StoreInsert(p)
    /\ UNCHANGED <<users, req>>

VerifyNext(P) ==
    /\ \/ \E p \in P, e \in Emails : IssueToken(p, e)
       \/ \E p \in P, id \in DOMAIN users : GetCurrentUser(p, id)
       \/ \E p \in P : ResendInsert(p)
       \/ \E p \in P, e \in Emails, tok \in 1..MaxRows :
             tok < nextId /\ VerifyEmailLookup(p, e, tok)
       \/ \E p \in P : VerifyEmailUpdate(p)
       \/ \E p \in P : VerifyEmailFinish(p)
       \/ Tick /\ UNCHANGED <<users, req>>
    /\ UNCHANGED <<sessionVars, ocall, last, nonceVars, callbackVars, appVars>>

\* ------------------------------ the requests that email a token

\* the users table with one account that has not verified its email
NotifyUsers == [id \in {"u1"} |-> UserRow(id, "alice", FALSE, None)]

SignupEmails == {"alice", "bob", DEMO_EMAIL}

\* /auth/signup up to the invalidation inside store_verification_token: the
\* check for an existing user and create_user
SignupStore(p, email) ==
    /\ req[p].pc = "done"
    /\ Ready(p)
    /\ LET r == [ReqIdle EXCEPT !.endpoint = "signup", !.email = email,
                                !.known = GetUserByEmail(users, email) # {}]
       IN \/ /\ GetUserByEmail(users, email) # {}
             /\ req' = [req EXCEPT ![p] =
                           [r EXCEPT !.reply = [status |-> 400, mailed |-> FALSE,
                                                tokens |-> {}]]]
             /\ UNCHANGED <<users, clockVars, tokenVars>>
          \/ /\ GetUserByEmail(users, email) = {}
             /\ DOMAIN users # UserIds
             /\ LET id == NewUserId(users)
                IN users' = [u \in DOMAIN users \cup {id} |->
                                IF u = id THEN UserRow(id, email, FALSE, None)
                                ELSE users[u]]
             /\ StoreInvalidate(p, email, EMAIL_VERIFICATION)
             /\ req' = [req EXCEPT ![p] = [r EXCEPT !.pc = "signup_store"]]
          \/ /\ req' = [req EXCEPT ![p] =
                           [r EXCEPT !.reply = [status |-> 500, mailed |-> FALSE,
                                                tokens |-> {}]]]
             /\ UNCHANGED <<users, clockVars, tokenVars>>
    /\ UNCHANGED minted

\* the rest of signup: the insert of the token, the verification email, which
\* is sent whatever store_verification_token returned, and both credentials
SignupSend(p) ==
    /\ req[p].pc = "signup_store"
    /\ StoreInsert(p)
    /\ \E id \in GetUserByEmail(users, req[p].email), email_sent \in BOOLEAN :
        LET tokens == {CreateAccessToken(id, now), CreateRefreshToken(id, now)}
        IN /\ req' = [req EXCEPT ![p] =
                         [@ EXCEPT !.pc = "done",
                                   !.reply = [status |-> 200, mailed |-> TRUE,
                                              email_sent |-> email_sent,
                                              tokens |-> tokens]]]
           /\ minted' = minted \cup tokens
    /\ UNCHANGED users

\* /auth/resend-verification up to the invalidation inside
\* store_verification_token
ResendVerification(p, email) ==
    /\ req[p].pc = "done"
    /\ Ready(p)
    /\ LET r == [ReqIdle EXCEPT !.endpoint = "resend_verification",
                                !.email = email,
                                !.known = GetUserByEmail(users, email) # {}]
           refuse(code, detail) ==
               /\ req' = [req EXCEPT ![p] =
                             [r EXCEPT !.reply = [status |-> code, detail |-> detail,
                                                  mailed |-> FALSE]]]
               /\ UNCHANGED <<clockVars, tokenVars>>
       IN \/ /\ GetUserByEmail(users, email) = {}
             /\ refuse(404, "User not found")
          \/ \E id \in GetUserByEmail(users, email) :
                IF users[id].email_verified
                THEN refuse(400, "Email is already verified")
                ELSE /\ StoreInvalidate(p, email, EMAIL_VERIFICATION)
                     /\ req' = [req EXCEPT ![p] = [r EXCEPT !.pc = "resend_store"]]
          \/ refuse(500, "Failed to resend verification email")
    /\ UNCHANGED <<users, minted>>

\* the rest of resend_verification_email: the insert, 500 when it failed, else
\* the verification email
ResendVerificationInsert(p) ==
    /\ req[p].pc = "resend_store"
    /\ StoreInsert(p)
    /\ LET finish(code, detail, mailed) ==
               req' = [req EXCEPT ![p] =
                          [@ EXCEPT !.pc = "done",
                                    !.reply = [status |-> code, detail |-> detail,
                                               mailed |-> mailed]]]
       IN IF call'[p].result = "false"
          THEN finish(500, "Failed to generate verification token", FALSE)
          ELSE \/ finish(200, "Verification email sent successfully", TRUE)
               \/ finish(500, "Failed to send verification email", TRUE)
    /\ UNCHANGED <<users, minted>>

\* the requests that hand a token to the email service: signup,
\* resend-verification, forgot-password and the authenticated request of an
\* unverified user
NotifyNext(P) ==
    /\ \/ \E p \in P, e \in SignupEmails : SignupStore(p, e)
       \/ \E p \in P : SignupSend(p)
       \/ \E p \in P, e \in RequestEmails : ResendVerification(p, e)
       \/ \E p \in P : ResendVerificationInsert(p)
       \/ \E p \in P, e \in RequestEmails :
             ForgotLookup(p, e) /\ UNCHANGED <<users, minted>>
       \/ \E p \in P : ForgotStore(p) /\ UNCHANGED <<users, minted>>
       \/ \E p \in P : ForgotSend(p) /\ UNCHANGED <<users, minted>>
       \/ \E p \in P, id \in DOMAIN users :
             GetCurrentUser(p, id) /\ UNCHANGED minted
       \/ \E p \in P : ResendInsert(p) /\ UNCHANGED minted
    /\ UNCHANGED <<probe, refreshed, ocall, last, nonceVars, callbackVars, appVars>>

\* ------------------- credentials across the requests that change the user

\* a registered user with a password who has not verified the email
PendingUsers ==
    [id \in {"u1"} |->
        [id |-> id, email |-> "alice", email_verified |-> FALSE,
         avatar_url |-> None,
         password_hash |-> HashPassword(PasswordOf("alice"))]]

\* the ledger after signup and /auth/forgot-password of that user at the start
\* of the run: a verification token and a reset token
IssuedTokens ==
    [id \in {1, 2} |->
        LET ttype == IF id = 1 THEN EMAIL_VERIFICATION ELSE PASSWORD_RESET
        IN NewRow(id, "alice", ttype, ExpiryOf(ttype, 0), 0)]

\* the clock, half an hour at a time
HalfHourTick ==
    /\ ticks < MaxSessionTicks
    /\ now' = now + ACCESS_TOKEN_EXPIRE_MINUTES
    /\ ticks' = ticks + 1
    /\ UNCHANGED <<ledger, nextId, call>>

\* ------------------------------ get_current_user with its credential

Unauthorized(detail) == [status |-> 401, detail |-> detail]

\* get_current_user: verify_access_token, whose HTTPException passes through,
\* then get_user_by_id_with_verification_check; no user gives 401 "User not
\* found", any other exception 401 "Invalid authentication credentials"
AuthenticatedRequest(p, token) ==
    /\ req[p].pc = "done"
    /\ Ready(p)
    /\ LET v == VerifyAccessToken(token, now)
           r == [ReqIdle EXCEPT !.endpoint = "current_user"]
           refuse(detail) ==
               /\ req' = [req EXCEPT ![p] =
                             [r EXCEPT !.reply = Unauthorized(detail)]]
               /\ UNCHANGED <<clockVars, tokenVars, users>>
       IN /\ probe' = [token |-> token, kind |-> ACCESS, at |-> now, outcome |-> v]
          /\ IF v.status # 200 THEN refuse(v.detail)
             ELSE \/ /\ GetUserById(users, v.user_id) = {}
                     /\ refuse("User not found")
                  \/ GetCurrentUser(p, v.user_id)
                  \/ refuse("Invalid authentication credentials")
    /\ UNCHANGED <<minted, refreshed>>

\* the users tables of the guarded requests: unverified users with and without
\* the row of "u2", and a verified user
GuardUsers == {UnverifiedUsers, NotifyUsers, RegisteredUsers}

\* the credentials login and signup issued at the start of the run: an access
\* credential for each id and a refresh credential
GuardCredentials ==
    {CreateAccessToken(u, 0) : u \in UserIds} \cup {CreateRefreshToken("u1", 0)}

\* authenticated requests with issued and made-up credentials and the
\* auto-resend of the verification token
GuardNext(P) ==
    /\ \/ \E p \in P, c \in Presentable : AuthenticatedRequest(p, c)
       \/ /\ \/ \E p \in P : ResendInsert(p)
             \/ HalfHourTick /\ UNCHANGED <<users, req>>
          /\ UNCHANGED sessionVars
    /\ UNCHANGED <<ocall, last, nonceVars, callbackVars, appVars>>

\* the new password of each of two concurrent requests
NewPasswordOf(p) == <<"password of", "reset by", p>>

\* concurrent /auth/reset-password and /auth/verify-email requests with the
\* tokens issued to one user
ResetRaceNext(P) ==
    /\ \/ \E p \in P, e \in Emails, tok \in DOMAIN IssuedTokens, ty \in TokenTypes :
             TokenCheck(p, e, tok, ty)
       \/ \E p \in P : VerifyEmailUpdate(p)
       \/ \E p \in P : VerifyEmailFinish(p)
       \/ \E p \in P : ResetPasswordFinishWith(p, NewPasswordOf(p))
    /\ UNCHANGED <<sessionVars, ocall, last, nonceVars, callbackVars, appVars>>

\* login at the start of the run, then /auth/refresh, /auth/verify-email and
\* /auth/reset-password of one user with the tokens issued to that user
StatelessNext(P) ==
    /\ \/ /\ ticks = 0
          /\ \E u \in DOMAIN users, k \in Kinds : Mint(u, k)
          /\ UNCHANGED <<refreshed, req>>
       \/ /\ \E c \in {m \in minted : m.type = REFRESH} : Refresh(c)
          /\ UNCHANGED req
       \/ /\ \/ \E p \in P, e \in Emails, tok \in DOMAIN IssuedTokens,
                      ty \in TokenTypes : TokenCheck(p, e, tok, ty)
             \/ \E p \in P : VerifyEmailUpdate(p)
             \/ \E p \in P : VerifyEmailFinish(p)
             \/ \E p \in P : ResetPasswordFinish(p)
             \/ HalfHourTick /\ UNCHANGED <<users, req>>
          /\ UNCHANGED <<sessionVars, ocall, last>>
    /\ UNCHANGED <<nonceVars, callbackVars, appVars>>

\* ------------------------------------- PUT and DELETE /supplements/{id}

\* the supplements table at the start: one supplement of each user; ids are
\* never handed out twice
StoredSupplements ==
    [id \in {1, 2} |->
        [id |-> id, user_id |-> IF id = 1 THEN "u1" ELSE "u2",
         name |-> "vitamin c"]]

SupplementIds == {1, 2, 3}
SupplementNames == {"zinc", "iron"}

SupIdle == [op |-> "none", pc |-> "done", user |-> "", id |-> 0, name |-> "",
            reply |-> NoReply]

SupplementInit ==
    /\ supplements = StoredSupplements
    /\ sup = [p \in Procs |-> SupIdle]

\* the check is only that the row exists
SupplementOf_AnyOwner(S, supplement_id, user_id) ==
    {S[id] : id \in DOMAIN S \cap {supplement_id}}

\* get_supplement_by_id and the test
\* `not supplement or supplement["user_id"] != current_user["id"]`: the rows
\* that pass it
SupplementOf(S, supplement_id, user_id) ==
    {S[id] : id \in {i \in DOMAIN S \cap {supplement_id} : S[i].user_id = user_id}}

SupplementNotFound == [status |-> 404, detail |-> "Supplement not found"]

SupplementFailed(op) ==
    [status |-> 500, detail |-> IF op = "update" THEN "Failed to update supplement"
                                ELSE "Failed to delete supplement"]

\* update_supplement and delete_supplement of the authenticated user user_id
\* up to the write: the lookup of the supplement and the test of its owner
SupplementLookup(p, op, user_id, supplement_id, name) ==
    /\ sup[p].pc = "done"
    /\ LET r == [SupIdle EXCEPT !.op = op, !.user = user_id, !.id = supplement_id,
                                !.name = name]
       IN \/ /\ SupplementOf(supplements, supplement_id, user_id) = {}
             /\ sup' = [sup EXCEPT ![p] = [r EXCEPT !.reply = SupplementNotFound]]
          \/ /\ SupplementOf(supplements, supplement_id, user_id) # {}
             /\ sup' = [sup EXCEPT ![p] = [r EXCEPT !.pc = "write"]]
          \/ /\ sup' = [sup EXCEPT ![p] = [r EXCEPT !.reply = SupplementFailed(op)]]
    /\ UNCHANGED supplements

\* db.update_supplement: update(...).eq("id", supplement_id); no row in the
\* result raises, and every exception is answered 500
SupplementUpdate(p) ==
    /\ sup[p].pc = "write" /\ sup[p].op = "update"
    /\ LET id == sup[p].id
           finish(reply) == sup' = [sup EXCEPT ![p] = [@ EXCEPT !.pc = "done",
                                                               !.reply = reply]]
       IN \/ /\ id \in DOMAIN supplements
             /\ supplements' = [supplements EXCEPT ![id].name = sup[p].name]
             /\ finish([status |-> 200, detail |-> ""])
          \/ /\ id \notin DOMAIN supplements
             /\ UNCHANGED supplements
             /\ finish(SupplementFailed("update"))
          \/ /\ UNCHANGED supplements
             /\ finish(SupplementFailed("update"))

\* db.delete_supplement: delete().eq("id", supplement_id); its False for no
\* deleted row is not looked at
SupplementDelete(p) ==
    /\ sup[p].pc = "write" /\ sup[p].op = "delete"
    /\ LET id == sup[p].id
           finish(reply) == sup' = [sup EXCEPT ![p] = [@ EXCEPT !.pc = "done",
                                                               !.reply = reply]]
       IN \/ /\ supplements' = [i \in DOMAIN supplements \ {id} |-> supplements[i]]
             /\ finish([status |-> 200, detail |-> "Supplement deleted successfully"])
          \/ /\ UNCHANGED supplements
             /\ finish(SupplementFailed("delete"))

SupplementNext(P) ==
    /\ \/ \E p \in P, op \in {"update", "delete"}, u \in UserIds,
             id \in SupplementIds, name \in SupplementNames :
                SupplementLookup(p, op, u, id, name)
       \/ \E p \in P : SupplementUpdate(p)
       \/ \E p \in P : SupplementDelete(p)
    /\ UNCHANGED <<clockVars, tokenVars, sessionVars, userVars, nonceVars,
                   callbackVars, requestVars, timerVars>>

\* ------------------------------------------------------------ AsyncTimer

TaskIds == {"a", "b"}
NoTask == "none"

\* AsyncTimer.__init__
TimerInit ==
    /\ tasks = <<>>
    /\ jobs = <<>>
    /\ nextJob = 1

AppInit == SupplementInit /\ TimerInit

\* run_task is in asyncio.sleep or at an await inside the callback
Suspended(J, h) == h \in DOMAIN J /\ J[h].pc \in {"sleeping", "callback"}

\* Task.cancel() by running task self: a suspended task gets CancelledError
\* at its await and ends there, the running task only has the request noted,
\* a finished task is left alone
CancelJob(J, h, self) ==
    IF h \notin DOMAIN J THEN J
    ELSE IF h = self THEN [J EXCEPT ![h].must_cancel = TRUE]
    ELSE IF Suspended(J, h) THEN [J EXCEPT ![h].pc = "cancelled"]
    ELSE J

\* dict.pop(task_id, None)
Pop(T, task_id) == [id \in DOMAIN T \ {task_id} |-> T[id]]

\* the body of schedule_task(task_id, ...) called by running task self: the
\* task under task_id is cancelled, then create_task(run_task()) is stored
ScheduledJobs(J, T, task_id, self, handle) ==
    LET cancelled == IF task_id \in DOMAIN T THEN CancelJob(J, T[task_id], self)
                     ELSE J
    IN [h \in DOMAIN cancelled \cup {handle} |->
           IF h = handle
           THEN [id |-> task_id, pc |-> "sleeping", must_cancel |-> FALSE]
           ELSE cancelled[h]]

ScheduledTasks(T, task_id, handle) ==
    [id \in DOMAIN T \cup {task_id} |-> IF id = task_id THEN handle ELSE T[id]]

\* schedule_task called from outside the timer's own tasks
ScheduleTask(task_id) ==
    /\ nextJob <= MaxJobs
    /\ jobs' = ScheduledJobs(jobs, tasks, task_id, 0, nextJob)
    /\ tasks' = ScheduledTasks(tasks, task_id, nextJob)
    /\ nextJob' = nextJob + 1

\* run_task of task h runs from where it is suspended up to the next await
\* inside the callback or to the end of the callback; on the way the callback
\* may call schedule_task(again). At an await a task that was asked to cancel
\* ends with CancelledError; after the callback returned run_task pops
\* task_id.
RunTask(h, again, ending) ==
    /\ Suspended(jobs, h)
    /\ again # NoTask => nextJob <= MaxJobs
    /\ LET J == IF again = NoTask THEN jobs
                ELSE ScheduledJobs(jobs, tasks, again, h, nextJob)
           T == IF again = NoTask THEN tasks
                ELSE ScheduledTasks(tasks, again, nextJob)
       IN /\ nextJob' = IF again = NoTask THEN nextJob ELSE nextJob + 1
          /\ IF ending = "await"
             THEN /\ jobs' = [J EXCEPT ![h].pc = IF J[h].must_cancel THEN "cancelled"
                                                 ELSE "callback"]
                  /\ tasks' = T
             ELSE /\ jobs' = [J EXCEPT ![h].pc = IF J[h].must_cancel THEN "cancelled"
                                                 ELSE "done"]
                  /\ tasks' = Pop(T, jobs[h].id)

\* cancel_task
CancelTask(task_id) ==
    /\ IF task_id \in DOMAIN tasks
       THEN /\ jobs' = CancelJob(jobs, tasks[task_id], 0)
            /\ tasks' = Pop(tasks, task_id)
       ELSE UNCHANGED <<tasks, jobs>>
    /\ UNCHANGED nextJob

RECURSIVE CancelEach(_, _)
CancelEach(J, H) ==
    IF H = {} THEN J
    ELSE LET h == CHOOSE x \in H : TRUE
         IN CancelEach(CancelJob(J, h, 0), H \ {h})

\* cancel_all_tasks
CancelAllTasks ==
    /\ jobs' = CancelEach(jobs, {tasks[id] : id \in DOMAIN tasks})
    /\ tasks' = <<>>
    /\ UNCHANGED nextJob

TimerNext ==
    /\ \/ \E id \in TaskIds : ScheduleTask(id)
       \/ \E h \in DOMAIN jobs, again \in TaskIds \cup {NoTask},
             ending \in {"await", "return"} : RunTask(h, again, ending)
       \/ \E id \in TaskIds : CancelTask(id)
       \/ CancelAllTasks
    /\ UNCHANGED <<clockVars, tokenVars, sessionVars, userVars, nonceVars,
                   callbackVars, requestVars, supplementVars>>

\* ------------------------------------------------------- specifications

Init ==
    /\ ClockInit /\ TokenInit /\ SessionInit /\ OAuthInit /\ users = <<>>
    /\ NonceInit /\ CallbackInit /\ RequestInit /\ AppInit

Next == TokenNext(Procs)

Spec == Init /\ [][Next]_vars

\* the token ledger with one request at a time
NextSeq == TokenNext({"p1"})

SpecSeq == Init /\ [][NextSeq]_vars

\* the session credentials: minting, verification, the clock
InitSession ==
    /\ ClockInit /\ TokenInit /\ SessionInit /\ OAuthInit /\ users = RegisteredUsers
    /\ NonceInit /\ CallbackInit /\ RequestInit /\ AppInit

NextSession ==
    /\ \/ \E u \in DOMAIN users, k \in Kinds : Mint(u, k)
       \/ \E c \in Presentable, k \in Kinds : Verify(c, k)
       \/ SessionTick
    /\ UNCHANGED <<nonceVars, callbackVars, requestVars, appVars>>

SpecSession == InitSession /\ [][NextSession]_vars

\* the /auth/refresh handler
NextRefresh ==
    /\ \/ \E u \in DOMAIN users, k \in Kinds : Mint(u, k)
       \/ \E c \in Presentable : Refresh(c)
       \/ SessionTick
    /\ UNCHANGED <<nonceVars, callbackVars, requestVars, appVars>>

SpecRefresh == InitSession /\ [][NextRefresh]_vars

\* OAuth login and the other writers of the users table, one request at a time
NextOAuthSeq ==
    /\ \/ OAuthNext({"p1"}, ExternalProfiles)
       \/ ocall["p1"].pc = "done" /\ UserWrites
    /\ UNCHANGED <<nonceVars, callbackVars, requestVars, appVars>>

SpecOAuthSeq == Init /\ [][NextOAuthSeq]_vars

\* signup and OAuth login for one email under concurrent request handlers
ContendedEmails == {"alice"}

NextOAuth ==
    /\ \/ OAuthNext(Procs, {d \in ExternalProfiles : d.email \in ContendedEmails})
       \/ \E p \in Procs, e \in ContendedEmails, a \in {None, LocalAvatar} :
             SignupLookup(p, e, a)
       \/ \E p \in Procs : SignupCreate(p)
       \/ \E e \in ContendedEmails : MarkEmailVerified(e)
       \/ \E id \in DOMAIN users, a \in {None, LocalAvatar} : UpdateProfile(id, a)
    /\ UNCHANGED <<nonceVars, callbackVars, requestVars, appVars>>

SpecOAuth == Init /\ [][NextOAuth]_vars

\* the state nonces of the OAuth flow on several server instances
SpecNonce == Init /\ [][NonceNext]_vars

\* the Google callback, one request at a time on one instance
NextCallback ==
    CallbackNext({"p1"}, {"i1"}) /\ UNCHANGED <<requestVars, appVars>>

SpecCallback == Init /\ [][NextCallback]_vars

\* /auth/forgot-password for a known and an unknown email
SpecForgot == InitSession /\ [][ForgotNext]_vars

\* /auth/login
InitLogin ==
    /\ ClockInit /\ TokenInit /\ SessionInit /\ OAuthInit /\ users = LoginUsers
    /\ NonceInit /\ CallbackInit /\ RequestInit /\ AppInit

SpecLogin == InitLogin /\ [][LoginNext]_vars

\* authenticated requests and /auth/verify-email of users who have not
\* verified their email, one request at a time
InitVerify ==
    /\ ClockInit /\ TokenInit /\ SessionInit /\ OAuthInit /\ users = UnverifiedUsers
    /\ NonceInit /\ CallbackInit /\ RequestInit /\ AppInit

NextVerify == VerifyNext({"p1"})

SpecVerify == InitVerify /\ [][NextVerify]_vars

\* the session credentials of a user across /auth/refresh, /auth/verify-email
\* and /auth/reset-password
InitStateless ==
    /\ ClockInit
    /\ ledger = IssuedTokens
    /\ nextId = 3
    /\ call = [p \in Procs |-> Idle]
    /\ SessionInit /\ OAuthInit /\ users = PendingUsers
    /\ NonceInit /\ CallbackInit /\ RequestInit /\ AppInit

NextStateless == StatelessNext({"p1"})

SpecStateless == InitStateless /\ [][NextStateless]_vars

\* authenticated requests, one at a time
InitGuard ==
    /\ ClockInit /\ TokenInit /\ OAuthInit /\ users \in GuardUsers
    /\ minted = GuardCredentials /\ probe = NoProbe /\ refreshed = NoRefresh
    /\ NonceInit /\ CallbackInit /\ RequestInit /\ AppInit

NextGuard == GuardNext({"p1"})

SpecGuard == InitGuard /\ [][NextGuard]_vars

\* the requests that email a token, one request at a time
InitNotify ==
    /\ ClockInit /\ TokenInit /\ SessionInit /\ OAuthInit /\ users = NotifyUsers
    /\ NonceInit /\ CallbackInit /\ RequestInit /\ AppInit

NextNotify == NotifyNext({"p1"})

SpecNotify == InitNotify /\ [][NextNotify]_vars

\* concurrent /auth/reset-password requests
NextResetRace == ResetRaceNext(Procs)

SpecResetRace == InitStateless /\ [][NextResetRace]_vars

\* the timer with two task ids
SpecTimer == Init /\ [][TimerNext]_vars

\* concurrent PUT and DELETE /supplements/{id} of two users
NextSupplements == SupplementNext(Procs)

SpecSupplements == InitLogin /\ [][NextSupplements]_vars

\* /auth/verify-email and /auth/reset-password with tokens of two emails and
\* both purposes, one request at a time
NextPairs == PairsNext({"p1"})

SpecPairs == InitLogin /\ [][NextPairs]_vars

\* ------------------------------------------------------------------ claims

SamePair(r1, r2) == r1.email = r2.email /\ r1.token_type = r2.token_type

\* what a verify_token call that reached its conditional update returned
Decided(p) ==
    /\ call[p].op = "verify"
    /\ call[p].pc = "done"
    /\ call[p].why \in {"ok", "lost"}

\* the step in which p's verify_token returns True
ReturnsTrue(p) ==
    /\ call[p].pc = "update"
    /\ call'[p].op = "verify"
    /\ call'[p].result = "true"

\* a verify_token call has returned True for a row that is still in the ledger
ReturnsTrueNow(p) ==
    /\ call[p].op = "verify" /\ call[p].result = "true"
    /\ call[p].row \in DOMAIN ledger

\* C1: in every reachable state each (email, token_type) pair has at most one
\* live row (used = false and expires_at > now), whatever the interleaving of
\* the store calls and also when an invalidation fails.
C1_AtMostOneLivePerPair ==
    \A e \in Emails, ty \in TokenTypes :
        Cardinality(Live(ledger, e, ty, now)) <= 1

\* C2: two concurrent verify_token calls that both selected the same unused,
\* unexpired row and both ran their conditional update: exactly one returned
\* True and the other False.
C2_ExactlyOneConcurrentVerifyWins ==
    \A p \in Procs, q \in Procs :
        (p # q /\ Decided(p) /\ Decided(q) /\ call[p].row = call[q].row)
            => ((call[p].result = "true") # (call[q].result = "true"))

C2_Witness ==
    \E p \in Procs, q \in Procs :
        /\ p # q /\ Decided(p) /\ Decided(q)
        /\ call[p].row = call[q].row
        /\ call[p].why = "ok" /\ call[q].why = "lost"

\* C3: with one store call after the other, every row of a pair older than
\* the pair's newest row has used = true, so that the newest row is the only
\* unused one.
C3_EarlierTokenOfPairIsUsed ==
    \A i \in DOMAIN ledger, j \in DOMAIN ledger :
        (i < j /\ SamePair(ledger[i], ledger[j])) => ledger[i].used

\* C4: with one call after the other, verify_token returns True only for a
\* row that is unused and that no later stored token of the same pair has
\* superseded: once T2 is stored T1 no longer verifies, and T2 verifies once.
C4_SupersededTokenNeverVerifies ==
    [][\A p \in Procs :
          ReturnsTrue(p) =>
              LET r == call[p].row
              IN /\ r \in DOMAIN ledger
                 /\ ~ledger[r].used
                 /\ \A j \in DOMAIN ledger :
                       ~(j > r /\ SamePair(ledger[j], ledger[r]))]_vars

\* C5: a verify_token call whose select finds a row that is past its
\* expires_at returns False: the call goes on to its conditional update, the
\* only place that returns True, only for a row with expires_at >= now.
C5_ExpiredTokenNeverVerifies ==
    [][\A p \in Procs :
          /\ (call[p].pc = "done" /\ call'[p].pc = "update")
                => ledger[call'[p].row].expires_at >= now
          /\ (call'[p] # call[p] /\ call'[p].op = "verify"
                /\ call'[p].result = "true")
                => (call[p].pc = "update" /\ call[p].row = call'[p].row)]_vars

C5_Witness ==
    \E p \in Procs :
        /\ call[p].op = "verify"
        /\ call[p].why = "expired"
        /\ call[p].result = "false"
        /\ call[p].row \in DOMAIN ledger
        /\ ~ledger[call[p].row].used
        /\ ledger[call[p].row].expires_at < now

\* C6: no step changes a row from used = true back to used = false, and a
\* verify_token call returns True only by an update of a row that was unused
\* until that step, so that no row is consumed twice.
C6_UsedIsMonotonicAndConsumedOnce ==
    [][/\ \A id \in DOMAIN ledger :
            ledger[id].used => (id \notin DOMAIN ledger' \/ ledger'[id].used)
       /\ \A p \in Procs :
            ReturnsTrue(p) =>
                /\ call[p].row \in DOMAIN ledger
                /\ ~ledger[call[p].row].used
                /\ ledger'[call[p].row].used]_vars

C6_Witness ==
    \E p \in Procs, j \in DOMAIN ledger :
        /\ call[p].op = "verify" /\ call[p].result = "true"
        /\ call[p].row \in DOMAIN ledger
        /\ ledger[call[p].row].used
        /\ j > call[p].row
        /\ SamePair(ledger[j], ledger[call[p].row])

\* C7: a credential minted as an access credential is rejected when a refresh
\* credential is expected, a credential minted as a refresh credential is
\* rejected when an access credential is expected, at every time, and nothing
\* a client can derive from the issued credentials is accepted as a kind
\* that was not issued.
C7_KindsNeverInterchange ==
    /\ \A c \in minted :
        /\ c.type = ACCESS => VerifyToken(c, REFRESH, now).status = 401
        /\ c.type = REFRESH => VerifyToken(c, ACCESS, now).status = 401
    /\ \A c \in Presentable, k \in Kinds :
        VerifyToken(c, k, now).status = 200 => c \in minted /\ c.type = k
    /\ probe.outcome.status = 200 =>
        probe.token \in minted /\ probe.token.type = probe.kind

\* an unexpired access credential presented where a refresh credential is
\* expected, some time after it was issued, while an unexpired refresh
\* credential exists that is refused as an access credential
C7_Witness ==
    /\ probe.outcome.status = 401
    /\ probe.at > 0
    /\ probe.token \in minted
    /\ probe.token.type = ACCESS
    /\ probe.kind = REFRESH
    /\ Cause(probe.token, probe.kind, probe.at) = "wrong_kind"
    /\ \E r \in minted :
        /\ r.type = REFRESH
        /\ VerifyToken(r, REFRESH, now).status = 200
        /\ VerifyToken(r, ACCESS, now).status = 401

\* C8: every failing session verification has the outcome 401 "Invalid
\* token", whatever the cause, so a failing call and any other failing input
\* have equal results.
C8_FailureIsUniform ==
    /\ \A c \in Presentable, k \in Kinds :
        /\ VerifyToken(c, k, now).status = 200 <=> Cause(c, k, now) = "none"
        /\ Cause(c, k, now) # "none" =>
            VerifyToken(c, k, now) = HttpError(401, "Invalid token")
    /\ probe.outcome.status \notin {0, 200} =>
        /\ probe.outcome = HttpError(401, "Invalid token")
        /\ \A c \in Presentable, k \in Kinds :
            VerifyToken(c, k, now).status # 200 =>
                VerifyToken(c, k, now) = probe.outcome

\* an expired credential was refused while credentials failing for each of the
\* other causes can be presented
C8_Witness ==
    /\ probe.outcome.status = 401
    /\ Cause(probe.token, probe.kind, probe.at) = "expired"
    /\ \A why \in {"bad_signature", "tampered", "missing_subject", "wrong_kind"} :
        \E c \in Presentable, k \in Kinds : Cause(c, k, now) = why

\* C9: /auth/refresh answers 200 only when the presented credential verified
\* as a refresh credential; the response then carries an access credential of
\* the same user and no refresh credential, and the presented credential keeps
\* verifying until it expires. Every other request is answered 401 without a
\* credential.
C9_RefreshOnlyAfterVerification ==
    refreshed.status # 0 =>
        LET c == refreshed.presented
            r == refreshed.response
        IN /\ r.status \in {200, 401}
           /\ r.status = 200 =>
                /\ VerifyRefreshToken(c, refreshed.at) = Accepted(c.sub)
                /\ c \in minted /\ c.type = REFRESH
                /\ r.access_token \in minted
                /\ r.access_token # c
                /\ VerifyAccessToken(r.access_token, refreshed.at) = Accepted(c.sub)
                /\ r.refresh_token = None
                /\ now <= c.exp => VerifyRefreshToken(c, now) = Accepted(c.sub)
           /\ r.status = 401 => r.access_token = None /\ r.refresh_token = None
           /\ Cause(c, REFRESH, refreshed.at) # "none" => r.status = 401

\* a refresh that succeeded some time ago, its credential still accepted
C9_Witness ==
    /\ refreshed.status = 200
    /\ now > refreshed.at
    /\ VerifyRefreshToken(refreshed.presented, now).status = 200

\* a refresh refused for an access credential
C9_WitnessRefused ==
    /\ refreshed.status = 401
    /\ refreshed.presented \in minted
    /\ refreshed.presented.type = ACCESS

\* the call of p repeats the call completed just before it: both found the
\* user in the table, both were given the same external profile
Repeats(c) ==
    /\ c.found
    /\ c.outcome \in {"running", "returned"}
    /\ c.prev.found
    /\ c.prev.outcome = "returned"
    /\ c.prev.profile = c.profile

\* C10: for a user already in the table, a second create_or_get_oauth_user
\* call with the same external profile returns without an update, the number
\* of user rows is what it was before the first call, and no step of a call
\* that found its user changes the number of rows or turns email_verified from
\* true to false.
C10_OAuthReconcileIsIdempotent ==
    [][\A p \in Procs :
        ocall'[p] # ocall[p] /\ ocall'[p].found =>
            /\ DOMAIN users' = DOMAIN users
            /\ \A id \in DOMAIN users :
                users[id].email_verified => users'[id].email_verified
            /\ Repeats(ocall'[p]) =>
                /\ ocall'[p].pc = "done"
                /\ ocall'[p].outcome = "returned"
                /\ ~ocall'[p].wrote
                /\ users' = users
                /\ Cardinality(DOMAIN users') = ocall'[p].prev.count
                /\ ocall'[p].prev.verified =>
                    users'[ocall'[p].user].email_verified]_vars

\* a second call after a first call that wrote the avatar and the flag
C10_Witness ==
    /\ Repeats(ocall["p1"])
    /\ ocall["p1"].pc = "done"
    /\ ocall["p1"].profile.avatar_url = ExternalAvatar
    /\ ocall["p1"].profile.email_verified
    /\ ~ocall["p1"].prev.verified
    /\ users[ocall["p1"].user].email_verified
    /\ users[ocall["p1"].user].avatar_url = ExternalAvatar

C12_VerifiedNeverReverts ==
    [][\A id \in DOMAIN users :
        users[id].email_verified =>
            id \in DOMAIN users' /\ users'[id].email_verified]_vars

\* C13: the user that create_or_get_oauth_user creates and returns for an
\* email not in the table has email_verified = true, whatever the external
\* profile reports.
C13_CreatedOAuthUserIsVerified ==
    [][\A p \in Procs :
        /\ ocall[p].pc = "oauth_update"
        /\ ocall'[p].pc = "done"
        /\ ocall'[p].outcome = "returned"
        => users'[ocall'[p].user].email_verified]_vars

\* C14: a state nonce is accepted at most once: over all verify_oauth_state
\* calls on all instances at most one returns True, and a call on a nonce
\* that was accepted returns False.
C14_NonceAcceptedAtMostOnce ==
    /\ \A n \in 1..MaxStates : accepts[n] <= 1
    /\ checked.result =>
        /\ accepts[checked.state] = 1
        /\ \A i \in Instances :
            checked.state \in DOMAIN oauth_states[i] =>
                oauth_states[i][checked.state].used

\* a nonce was accepted, and a later call for it was refused as already used
C14_Witness ==
    /\ checked.verdict = "already_used"
    /\ accepts[checked.state] = 1

\* C17: a verify_oauth_state call made more than 10 minutes after the nonce
\* was stored, or made with a provider other than the stored one, returns
\* False and leaves the nonce unconsumed.
C17_LateOrMisdirectedNonceIsRefused ==
    [][\A i \in Instances, p \in Providers :
        \A n \in DOMAIN oauth_states[i] :
            /\ VerifyOAuthState(i, n, p)
            /\ \/ now > oauth_states[i][n].created_at + OAUTH_STATE_EXPIRE_MINUTES
               \/ p # oauth_states[i][n].provider
            => /\ ~checked'.result
               /\ accepts' = accepts
               /\ oauth_states'[i][n].used = oauth_states[i][n].used]_vars

\* an unused nonce was refused as expired, 11 minutes after it was stored
C17_Witness ==
    /\ checked.verdict = "expired"
    /\ \E i \in Instances :
        /\ checked.state \in DOMAIN oauth_states[i]
        /\ ~oauth_states[i][checked.state].used
        /\ now = oauth_states[i][checked.state].created_at
                    + OAUTH_STATE_EXPIRE_MINUTES + 1

\* an unused, unexpired nonce was refused for the wrong provider
C17_WitnessProvider ==
    /\ checked.verdict = "provider_mismatch"
    /\ \E i \in Instances :
        /\ checked.state \in DOMAIN oauth_states[i]
        /\ ~oauth_states[i][checked.state].used
        /\ now <= oauth_states[i][checked.state].expires_at

\* a step of the handlers writes the users table or mints a credential
WritesOrMints == users' # users \/ minted' # minted

\* C15: a callback whose state nonce is refused ends there: it answers with
\* the error redirect, carries no credential, and neither it nor any call
\* that has not passed the nonce check writes a user or mints a credential.
C15_RefusedNonceAbortsCallback ==
    [][\A p \in Procs :
        /\ cb[p].pc = "done" /\ cb'[p] # cb[p] /\ ~checked'.result =>
            /\ cb'[p].pc = "done"
            /\ cb'[p].outcome = "failed"
            /\ cb'[p].tokens = {}
            /\ ~WritesOrMints
            /\ ocall' = ocall
        /\ cb'[p].pc # "done" => "state" \in cb'[p].passed
        /\ cb'[p] # cb[p] /\ WritesOrMints => "state" \in cb[p].passed]_vars

\* a replayed nonce: the callback failed at the nonce check because the
\* nonce had been used by an earlier callback that created a user
C15_Witness ==
    /\ cb["p1"].outcome = "failed"
    /\ cb["p1"].failed_at = "state"
    /\ checked.verdict = "already_used"
    /\ users # <<>>

\* C16: a callback whose code exchange or profile fetch fails ends there:
\* the users table is as it was, no credential is minted or returned, and
\* only calls that passed both steps write a user or mint a credential.
C16_FailedFetchAbortsCallback ==
    [][\A p \in Procs :
        /\ cb[p].pc \in {"exchange", "userinfo"} /\ cb'[p].failed_at # "" =>
            /\ cb'[p].pc = "done"
            /\ cb'[p].outcome = "failed"
            /\ cb'[p].tokens = {}
            /\ ~WritesOrMints
            /\ ocall' = ocall
        /\ cb[p].pc \in {"exchange", "userinfo"} /\ cb'[p].pc \notin {"done", cb[p].pc} =>
            cb[p].pc \in cb'[p].passed
        /\ cb'[p].pc \in {"reconcile", "reconciling"} =>
            {"exchange", "userinfo"} \subseteq cb'[p].passed
        /\ cb'[p] # cb[p] /\ WritesOrMints =>
            {"exchange", "userinfo"} \subseteq cb[p].passed]_vars

\* the profile fetch failed after the code exchange had succeeded
C16_Witness ==
    /\ cb["p1"].outcome = "failed"
    /\ cb["p1"].failed_at = "userinfo"
    /\ "exchange" \in cb["p1"].passed
    /\ users = <<>>
    /\ minted = {}

\* the code exchange failed
C16_WitnessExchange ==
    /\ cb["p1"].outcome = "failed"
    /\ cb["p1"].failed_at = "exchange"

\* the fields of a JSON body
Shape(body) == {f[1] : f \in body}

\* C18: the response of /auth/forgot-password for an email without a user has
\* the fields and the values of the response for an email with a user.
C18_ForgotPasswordHidesExistence ==
    \A p \in Procs, q \in Procs :
        /\ req[p].endpoint = "forgot" /\ req[p].pc = "done" /\ ~req[p].known
        /\ req[q].endpoint = "forgot" /\ req[q].pc = "done" /\ req[q].known
        => /\ Shape(req[p].reply.body) = Shape(req[q].reply.body)
           /\ req[p].reply = req[q].reply

\* C19: /auth/login answers an unknown email and a known email with a wrong
\* password with the same 401 "Invalid email or password", and mints no
\* credential for either.
C19_LoginFailureIsUniform ==
    [][\A p \in Procs :
        /\ req'[p] # req[p]
        /\ req'[p].endpoint = "login"
        /\ ~req'[p].known \/ ~req'[p].password_ok
        => /\ req'[p].reply = LoginRefused
           /\ minted' = minted]_vars

\* C20: a verify_token whose lookup or conditional update raised does not
\* return false, and its callers answer it with a 500-class failure, never
\* with "Invalid or expired ... token".
C20_StoreFailureIsNotInvalidToken ==
    \A p \in Procs :
        call[p].op = "verify" /\ call[p].pc = "done" /\ call[p].why = "error"
        => /\ call[p].result # "false"
           /\ \A ttype \in TokenTypes :
                LET reply == TokenCallerReply(ttype, call[p].result)
                IN /\ reply.status \in 500..599
                   /\ reply.detail # InvalidTokenDetail(ttype)


\* the rows a step inserts, and the rows it keeps
Inserted == DOMAIN ledger' \ DOMAIN ledger
Kept == DOMAIN ledger' \cap DOMAIN ledger

C22_AutoResendIsGuardedByLiveToken ==
    [][\A p \in Procs :
        /\ req[p].pc = "done" /\ req'[p] # req[p]
        /\ req'[p].endpoint = "current_user"
        /\ \E id \in DOMAIN users : users[id].email = req'[p].email
                                     /\ NeedsVerification(users[id])
        /\ HasValidVerificationToken(ledger, req'[p].email, now)
        => /\ call'[p] = call[p]
           /\ ledger' = ledger
           /\ req'[p].pc = "done"
           /\ Live(ledger', req'[p].email, EMAIL_VERIFICATION, now)
                = Live(ledger, req'[p].email, EMAIL_VERIFICATION, now)]_vars

\* C24: a /auth/verify-email request whose verify_token returned True, for an
\* email that has a user, finishes with that user's email_verified = true.
C24_ConsumedTokenVerifiesUser ==
    [][\A p \in Procs :
        /\ req[p].endpoint = "verify_email" /\ req[p].pc = "verify"
        /\ req'[p].pc = "done"
        /\ call[p].result = "true"
        => \A id \in GetUserByEmail(users', req[p].email) :
                users'[id].email_verified]_vars


\* verify_token consumes a row that is unused and not past its expires_at
Consumable(L, t) == {id \in DOMAIN L : ~L[id].used /\ ~IsExpired(L[id], t)}

\* C23: a step that deletes rows, which only cleanup_expired_tokens does,
\* deletes exactly the rows with expires_at < now, used or not, and leaves
\* every other row as it was, so that every row verify_token would consume
\* before the sweep is there, and consumable, after it.
C23_SweepDeletesExactlyTheExpired ==
    [][DOMAIN ledger \ DOMAIN ledger' # {} =>
        /\ DOMAIN ledger \ DOMAIN ledger'
            = {id \in DOMAIN ledger : ledger[id].expires_at < now}
        /\ \A id \in DOMAIN ledger :
            ledger[id].expires_at >= now
                => id \in DOMAIN ledger' /\ ledger'[id] = ledger[id]
        /\ Inserted = {}
        /\ Consumable(ledger', now) = Consumable(ledger, now)
        /\ \A e \in Emails, ty \in TokenTypes :
            Live(ledger', e, ty, now) = Live(ledger, e, ty, now)]_vars

\* a sweep has deleted a row, and has kept an unused row that is at its
\* expiry instant, which a later verify_token consumed
C23_Witness ==
    /\ Cardinality(DOMAIN ledger) < nextId - 1
    /\ \E p \in Procs :
        /\ ReturnsTrueNow(p)
        /\ ledger[call[p].row].expires_at = now


\* the step in which p's store call fails at its insert
InsertFails(p) ==
    /\ call[p].pc = "insert"
    /\ call'[p].pc = "done"
    /\ Inserted = {}

\* C25: a store call whose insert fails returns False, changes no row at its
\* insert, so what it invalidated stays used, and leaves the pair with no
\* live token; a store call marks rows used only before its insert.
C25_FailedInsertLeavesNoLiveToken ==
    [][\A p \in Procs :
        /\ InsertFails(p) =>
            /\ call'[p].result = "false"
            /\ ledger' = ledger
            /\ Live(ledger', call[p].email, call[p].ttype, now) = {}
        /\ call[p].pc = "insert" =>
            \A id \in DOMAIN ledger : ledger'[id] = ledger[id]]_vars

\* C26: the invalidation step of a store call never ends the call, whether
\* its update worked or raised; the call returns True exactly when its insert
\* stored the row, also when rows of the pair were left unused.
C26_InvalidationFailureIsNotReported ==
    [][\A p \in Procs :
        /\ (call[p].pc = "done" /\ call'[p] # call[p] /\ call'[p].op = "store")
            => call'[p].pc = "insert" /\ call'[p].result = "none"
        /\ (call[p].pc = "insert" /\ call'[p].pc = "done")
            => /\ call'[p].op = "store"
               /\ (call'[p].result = "true") = (Inserted # {})
               /\ (call'[p].result = "false") = (Inserted = {})]_vars

\* a store call returned True although its invalidation had failed: the
\* pair's earlier row is still unused beside the new one
C26_Witness ==
    \E p \in Procs, i \in DOMAIN ledger, j \in DOMAIN ledger :
        /\ call[p].op = "store" /\ call[p].result = "true"
        /\ i < j /\ SamePair(ledger[i], ledger[j])
        /\ ~ledger[i].used /\ ~ledger[j].used


\* the row matches the email, the token and the token_type of p's request
MatchesRequest(row, r) ==
    /\ row.email = r.email
    /\ row.token = r.token
    /\ row.token_type = TokenTypeOf(r.endpoint)

\* C27: verify_token returns True only for a row that has the email, the
\* token and the token_type of the call, and no step of a verify_token call
\* changes a row that differs from the call in one of them.
C27_VerifyMatchesEmailTokenAndType ==
    [][\A p \in Procs :
        /\ (ReturnsTrue(p) /\ req[p].pc = "verify")
            => MatchesRequest(ledger[call[p].row], req[p])
        /\ (req'[p].pc = "verify" /\ call'[p] # call[p])
            => \A id \in DOMAIN ledger :
                ~MatchesRequest(ledger[id], req'[p])
                    => id \in DOMAIN ledger' /\ ledger'[id] = ledger[id]]_vars

\* /auth/reset-password was refused for the token of an unused, unexpired
\* verification row of the same email, and the row is still unused
C27_Witness ==
    \E p \in Procs :
        /\ req[p].endpoint = "reset_password" /\ req[p].pc = "done"
        /\ req[p].reply.status = 400
        /\ call[p].why = "not_found"
        /\ req[p].token \in DOMAIN ledger
        /\ LET row == ledger[req[p].token]
           IN /\ row.email = req[p].email
              /\ row.token_type = EMAIL_VERIFICATION
              /\ ~row.used /\ row.used_at = NoTime
              /\ ~IsExpired(row, now)

\* a request was refused for the token of an unused, unexpired row of the
\* same purpose and another email, and the row is still unused
C27_WitnessEmail ==
    \E p \in Procs :
        /\ req[p].endpoint \in {"verify_email", "reset_password"}
        /\ req[p].pc = "done"
        /\ req[p].reply.status = 400
        /\ call[p].why = "not_found"
        /\ req[p].token \in DOMAIN ledger
        /\ LET row == ledger[req[p].token]
           IN /\ row.email # req[p].email
              /\ row.token_type = TokenTypeOf(req[p].endpoint)
              /\ ~row.used /\ row.used_at = NoTime
              /\ ~IsExpired(row, now)

\* C28: a store call for (E, P) changes no row of another email and no row of
\* E with the other purpose, at its invalidation or at its insert.
C28_StoreTouchesOnlyItsPair ==
    [][\A p \in Procs :
        (call'[p] # call[p] /\ (call'[p].pc = "insert" \/ call[p].pc = "insert"))
        => LET c == IF call[p].pc = "insert" THEN call[p] ELSE call'[p]
           IN \A id \in DOMAIN ledger :
                (ledger[id].email # c.email \/ ledger[id].token_type # c.ttype)
                    => /\ id \in DOMAIN ledger'
                       /\ ledger'[id] = ledger[id]]_vars

\* a store call has run its invalidation and stored its row while an unused
\* row of the email with the other purpose was in the ledger, and that row is
\* still unused
C28_Witness ==
    \E i \in DOMAIN ledger, j \in DOMAIN ledger, p \in Procs :
        /\ i < j
        /\ ledger[i].email = ledger[j].email
        /\ ledger[i].token_type # ledger[j].token_type
        /\ ~ledger[i].used /\ ledger[i].used_at = NoTime
        /\ call[p].op = "store" /\ call[p].result = "true"

\* the same for an unused row of the purpose with another email
C28_WitnessEmail ==
    \E i \in DOMAIN ledger, j \in DOMAIN ledger, p \in Procs :
        /\ i < j
        /\ ledger[i].email # ledger[j].email
        /\ ledger[i].token_type = ledger[j].token_type
        /\ ~ledger[i].used /\ ledger[i].used_at = NoTime
        /\ call[p].op = "store" /\ call[p].result = "true"


\* C29: a verify_token call that returns False because the selected row is
\* past its expires_at, or because the select found no row, ends there and
\* changes no row; the expired row keeps used = false and no used_at.
C29_RefusedVerifyChangesNothing ==
    [][\A p \in Procs :
        (call[p].pc = "done" /\ call'[p] # call[p] /\ call'[p].op = "verify"
            /\ call'[p].why \in {"expired", "not_found"})
        => /\ call'[p].pc = "done" /\ call'[p].result = "false"
           /\ ledger' = ledger
           /\ call'[p].why = "expired" =>
                /\ call'[p].row \in DOMAIN ledger'
                /\ ~ledger'[call'[p].row].used
                /\ ledger'[call'[p].row].used_at = NoTime]_vars

\* verify_token refused an expired row, which is in the ledger as it was
\* stored
C29_Witness ==
    \E p \in Procs :
        /\ call[p].op = "verify" /\ call[p].why = "expired"
        /\ call[p].row \in DOMAIN ledger
        /\ LET row == ledger[call[p].row]
           IN row = NewRow(row.id, row.email, row.token_type, row.expires_at,
                           row.created_at)
        /\ IsExpired(ledger[call[p].row], now)

\* verify_token found no row for a token that is in the ledger, used
C29_WitnessNotFound ==
    \E p \in Procs, id \in DOMAIN ledger :
        /\ call[p].op = "verify" /\ call[p].why = "not_found"
        /\ ledger[id].used


\* the lifetime of a credential of a kind, and the time a credential was minted
LifetimeOf(kind) ==
    IF kind = ACCESS THEN ACCESS_TOKEN_EXPIRE_MINUTES
    ELSE Days(REFRESH_TOKEN_EXPIRE_DAYS)

MintedAt(c) == c.exp - LifetimeOf(c.type)

\* C30: a credential minted for user U verifies as its own kind, with result
\* U, while less than its lifetime (30 minutes for access, 7 days for
\* refresh) has elapsed since it was minted, and is rejected from then on.
C30_CredentialVerifiesWithinLifetimeOnly ==
    \A c \in minted :
        /\ c \in {CreateAccessToken(c.sub, MintedAt(c)),
                  CreateRefreshToken(c.sub, MintedAt(c))}
        /\ now - MintedAt(c) < LifetimeOf(c.type)
            => VerifyToken(c, c.type, now) = Accepted(c.sub)
        /\ now - MintedAt(c) >= LifetimeOf(c.type)
            => VerifyToken(c, c.type, now).status = 401


\* C31: a credential that verifies keeps verifying after every step, a
\* password reset, an email verification and a refresh included, as long as
\* the clock has not passed its exp: no step revokes an issued credential.
C31_NoOperationRevokesCredential ==
    [][\A c \in minted :
        (VerifyToken(c, c.type, now) = Accepted(c.sub) /\ ~(c.exp < now'))
        => /\ c \in minted'
           /\ (VerifyToken(c, c.type, now))' = Accepted(c.sub)]_vars

\* an access credential and a refresh credential minted before a password
\* reset that has since changed the user's password, both still accepted
C31_Witness ==
    \E a \in minted, r \in minted, id \in DOMAIN ledger, p \in Procs :
        /\ a.type = ACCESS /\ r.type = REFRESH
        /\ ledger[id].token_type = PASSWORD_RESET
        /\ ledger[id].used
        /\ ledger[id].used_at > MintedAt(a) /\ ledger[id].used_at > MintedAt(r)
        /\ req[p].endpoint = "reset_password" /\ req[p].reply.status = 200
        /\ users[a.sub].password_hash = HashPassword(NewPassword)
        /\ r.sub = a.sub
        /\ VerifyToken(a, ACCESS, now) = Accepted(a.sub)
        /\ VerifyToken(r, REFRESH, now) = Accepted(r.sub)

\* a credential minted before the email was verified, accepted after it
C31_WitnessVerified ==
    \E c \in minted, id \in DOMAIN ledger, p \in Procs :
        /\ ledger[id].token_type = EMAIL_VERIFICATION
        /\ ledger[id].used /\ ledger[id].used_at > MintedAt(c)
        /\ req[p].endpoint = "verify_email" /\ req[p].reply.status = 200
        /\ users[c.sub].email_verified
        /\ VerifyToken(c, c.type, now) = Accepted(c.sub)

\* a refresh credential accepted by /auth/refresh and accepted again later
C31_WitnessRefresh ==
    /\ refreshed.status = 200
    /\ refreshed.at < now
    /\ refreshed.presented \in minted
    /\ VerifyToken(refreshed.presented, REFRESH, now)
        = Accepted(refreshed.presented.sub)


\* C32: a verify_token call whose selected row was marked used, by the
\* invalidation of a store call or otherwise, between its select and its
\* conditional update returns False and changes nothing.
C32_InvalidatedTokenIsNeverConsumed ==
    [][\A p \in Procs :
        (/\ call[p].pc = "update"
         /\ call'[p].pc = "done"
         /\ (call[p].row \notin DOMAIN ledger \/ ledger[call[p].row].used))
        => /\ call'[p].op = "verify"
           /\ call'[p].result = "false"
           /\ ledger' = ledger]_vars

\* p's verify_token selected the only row of the ledger, q's store call for
\* the row's pair then invalidated it and is at its insert, and p's
\* conditional update found the row used
C32_Witness ==
    \E p \in Procs, q \in Procs :
        /\ p # q
        /\ call[p].op = "verify" /\ call[p].why = "lost"
        /\ call[p].result = "false"
        /\ DOMAIN ledger = {call[p].row}
        /\ ledger[call[p].row].used
        /\ call[q].op = "store" /\ call[q].pc = "insert"
        /\ call[q].email = ledger[call[p].row].email
        /\ call[q].ttype = ledger[call[p].row].token_type


\* p's /auth/reset-password request holds a True of verify_token
HoldsConsumedReset(p) ==
    /\ req[p].endpoint = "reset_password" /\ req[p].pc = "verify"
    /\ call[p].op = "verify" /\ call[p].pc = "done" /\ call[p].result = "true"

\* C33: a step changes a user's password only as the end of a
\* /auth/reset-password request whose verify_token returned True for a used
\* password_reset row of that user's email and of the request's token, and no
\* two requests hold a True for the same row, so a token authorises one
\* change.
C33_PasswordChangeNeedsConsumedResetToken ==
    [][/\ \A id \in DOMAIN users :
            users'[id].password_hash # users[id].password_hash
            => \E p \in Procs :
                /\ HoldsConsumedReset(p)
                /\ req'[p].pc = "done"
                /\ call[p].row \in DOMAIN ledger
                /\ LET row == ledger[call[p].row]
                   IN /\ row.used
                      /\ row.token_type = PASSWORD_RESET
                      /\ row.email = users[id].email
                      /\ row.email = req[p].email
                      /\ row.token = req[p].token
       /\ \A p \in Procs, q \in Procs :
            (p # q /\ call[p].op = "verify" /\ call[p].result = "true"
                /\ call[q].op = "verify" /\ call[q].result = "true")
            => call[p].row # call[q].row]_vars

\* two concurrent requests carried the same reset token: one changed the
\* password, the other was refused
C33_Witness ==
    \E p \in Procs, q \in Procs, id \in DOMAIN users :
        /\ p # q
        /\ req[p].endpoint = "reset_password" /\ req[p].pc = "done"
        /\ req[p].reply.status = 200
        /\ users[id].password_hash = HashPassword(NewPasswordOf(p))
        /\ req[q].endpoint = "reset_password" /\ req[q].pc = "done"
        /\ req[q].token = req[p].token /\ req[q].email = req[p].email
        /\ call[q].why = "lost"
        /\ req[q].reply.status = 400


\* the finished request r handed a token to the email service
Mailed(r) ==
    /\ r.pc = "done"
    /\ CASE r.endpoint = "signup" -> r.reply.mailed
         [] r.endpoint = "resend_verification" -> r.reply.mailed
         [] r.endpoint = "forgot" ->
                r.reply \in {ForgotReply("sent"), ForgotReply("send_failed")}
         [] r.endpoint = "current_user" ->
                r.reply.status = 401 /\ r.reply.emailed
         [] OTHER -> FALSE

\* C34: a request that handed a token to the email service had stored it: its
\* store call returned True.
C34_MailedTokenWasStored ==
    \A p \in Procs :
        Mailed(req[p]) => call[p].op = "store" /\ call[p].result = "true"


\* p's request has just passed get_current_user
Served(p) ==
    /\ req'[p].endpoint = "current_user" /\ req'[p].pc = "done"
    /\ req'[p].reply.status = 200
    /\ req'[p] # req[p]

C35_WitnessUnverified ==
    \E p \in Procs :
        /\ req[p].endpoint = "current_user" /\ req[p].pc = "done"
        /\ req[p].reply.status = 401
        /\ probe.outcome.status = 200
        /\ \E user \in GetUserById(users, probe.token.sub) :
              ~user.email_verified /\ user.email # DEMO_EMAIL

\* a valid credential whose subject has no row is refused
C35_WitnessNoUser ==
    \E p \in Procs :
        /\ req[p].endpoint = "current_user" /\ req[p].pc = "done"
        /\ req[p].reply = Unauthorized("User not found")
        /\ probe.outcome.status = 200
        /\ GetUserById(users, probe.token.sub) = {}

\* a refresh credential presented as an access credential is refused
C35_WitnessWrongKind ==
    \E p \in Procs :
        /\ req[p].endpoint = "current_user" /\ req[p].pc = "done"
        /\ req[p].reply.status = 401
        /\ probe.token \in minted /\ probe.token.type = REFRESH


\* C36: /auth/login answers 200 with credentials only when a user of the
\* email exists and the password verifies against that user's password_hash;
\* no email is served with a wrong password.
C36_LoginNeedsMatchingPassword ==
    \A p \in Procs :
        (req[p].endpoint = "login" /\ req[p].reply.status = 200)
        => /\ \E id \in GetUserByEmail(users, req[p].email) :
                 req[p].reply.tokens =
                     {CreateAccessToken(id, now), CreateRefreshToken(id, now)}
           /\ req[p].known
           /\ req[p].password_ok


\* the supplement the request names is missing or is another user's
NotOwned(r) ==
    r.id \in DOMAIN supplements => supplements[r.id].user_id # r.user

\* the rows of the table that a step wrote or deleted
Touched ==
    {id \in DOMAIN supplements :
        id \notin DOMAIN supplements' \/ supplements'[id] # supplements[id]}

\* every write of the table is the write of a request of the row's owner
OnlyOwnerWrites ==
    /\ DOMAIN supplements' \subseteq DOMAIN supplements
    /\ \A id \in Touched :
        \E p \in Procs :
            /\ sup[p].pc = "write" /\ sup'[p].pc = "done"
            /\ sup[p].id = id
            /\ sup[p].user = supplements[id].user_id

\* C37 as stated: only a request of the owner updates or deletes a
\* supplement, and a request for a missing or foreign supplement returns 404
\* and leaves the table as it was.
C37_ForeignSupplementIs404 ==
    [][/\ OnlyOwnerWrites
       /\ \A p \in Procs :
            (sup[p].pc = "done" /\ sup'[p] # sup[p] /\ NotOwned(sup'[p]))
            => /\ sup'[p].pc = "done"
               /\ sup'[p].reply = SupplementNotFound
               /\ supplements' = supplements]_vars

\* C37, amended: only a request of the owner updates or deletes a supplement;
\* a request for a missing or foreign supplement ends without a write, with
\* 404, or with 500 when the lookup of the supplement itself failed.
C37_OnlyOwnerChangesSupplement ==
    [][/\ OnlyOwnerWrites
       /\ \A p \in Procs :
            (sup[p].pc = "done" /\ sup'[p] # sup[p] /\ NotOwned(sup'[p]))
            => /\ sup'[p].pc = "done"
               /\ sup'[p].reply \in {SupplementNotFound,
                                     SupplementFailed(sup'[p].op)}
               /\ supplements' = supplements]_vars

\* a request for another user's supplement was answered 404 while the owner's
\* own update went through
C37_Witness ==
    \E p \in Procs, q \in Procs :
        /\ p # q
        /\ sup[p].pc = "done" /\ sup[p].reply = SupplementNotFound
        /\ sup[p].id \in DOMAIN supplements
        /\ supplements[sup[p].id].user_id # sup[p].user
        /\ sup[q].pc = "done" /\ sup[q].reply.status = 200
        /\ sup[q].op = "update" /\ sup[q].id = sup[p].id
        /\ supplements[sup[q].id].name = sup[q].name

\* a request for a supplement that does not exist was answered 404
C37_WitnessMissing ==
    \E p \in Procs :
        /\ sup[p].pc = "done" /\ sup[p].reply = SupplementNotFound
        /\ sup[p].id \notin DOMAIN supplements
        /\ sup[p].op = "delete"


\* C38: every task of the timer that has not ended and was not asked to
\* cancel is the entry of its task_id, so cancel_task and cancel_all_tasks
\* reach it and a later schedule_task replaces it.
C38_PendingTaskIsTheEntry ==
    \A h \in DOMAIN jobs :
        (Suspended(jobs, h) /\ ~jobs[h].must_cancel)
        => jobs[h].id \in DOMAIN tasks /\ tasks[jobs[h].id] = h

====
